---- MODULE Spec2Model ----
(***************************************************************************)
(* Model of the 3D extinction comparison code:                             *)
(*   src/python/stilism_local.py      (cube lookup, distance generation)   *)
(*   src/python/compareExtinctions.py (lineofsight, hybridSightline,       *)
(*                                     loopSightlines, writeExtmap,        *)
(*                                     mergeMaps)                          *)
(*                                                                         *)
(* Numbers.  Distances are integers (parsecs in model units).  A value     *)
(* that the code obtains by a float division is kept as an exact fraction  *)
(* <<n, d>>; 1/0 stands for numpy's inf and 0/0 for numpy's nan.           *)
(***************************************************************************)
EXTENDS Integers, Sequences, FiniteSets, TLC

VARIABLES
    cube,   \* stilism_local module state: the loaded cube geometry
    los,    \* the lineofsight object (its fields)
    hyb,    \* one call of hybridSightline: its locals, stage by stage
    loop,   \* one call of loopSightlines: its locals and the tile file
    mrg,    \* one call of mergeMaps: its locals and the files it touches
    ebv3d,  \* one ebv3d object of readExtinction.py and the files it reads
    ray     \* one sight line through the cube: a call of stilism_local.py

vars == <<cube, los, hyb, loop, mrg, ebv3d, ray>>

(***************************************************************************)
(* Bounds of the model                                                     *)
(***************************************************************************)
MaxDistBins == 10      \* largest nDistBins tried
MaxEbv == 3            \* largest median E(B-V) tried, in model units

(***************************************************************************)
(* Small helpers                                                           *)
(***************************************************************************)
Abs(x) == IF x < 0 THEN -x ELSE x

\* F applied to the value of e, with e evaluated once
Value(e, F(_)) == CHOOSE r \in {F(x) : x \in {e}} : TRUE

Idle == [stage |-> "idle"]

SeqMax(s) == CHOOSE m \in {s[i] : i \in 1..Len(s)} :
                 \A i \in 1..Len(s) : s[i] <= m

SeqMin(s) == CHOOSE m \in {s[i] : i \in 1..Len(s)} :
                 \A i \in 1..Len(s) : m <= s[i]

StrictlyIncreasing(s) == \A i \in 1..(Len(s) - 1) : s[i] < s[i + 1]

(***************************************************************************)
(* Exact fractions standing for the code's floats                          *)
(***************************************************************************)
RECURSIVE Gcd(_, _)
Gcd(a, b) == IF b = 0 THEN a ELSE Gcd(b, a % b)

Sign(n) == IF n > 0 THEN 1 ELSE IF n < 0 THEN -1 ELSE 0

\* n/d in lowest terms with d >= 0; <<1,0>> is inf, <<-1,0>> is -inf and
\* <<0,0>> is nan.
Frac(n, d) ==
    IF d = 0 THEN <<Sign(n), 0>>
    ELSE LET g == Gcd(Abs(n), Abs(d))
             s == Sign(d)
         IN  <<(s * n) \div g, (s * d) \div g>>

FInt(n) == <<n, 1>>
NaN == <<0, 0>>
IsNaN(x) == x = NaN
IsFinite(x) == x[2] # 0

FLt(x, y) == ~IsNaN(x) /\ ~IsNaN(y) /\ x[1] * y[2] < y[1] * x[2]
FLe(x, y) == ~IsNaN(x) /\ ~IsNaN(y) /\ x[1] * y[2] <= y[1] * x[2]
FGt(x, y) == FLt(y, x)
FSub(x, y) == Frac(x[1] * y[2] - y[1] * x[2], x[2] * y[2])
FAdd(x, y) == Frac(x[1] * y[2] + y[1] * x[2], x[2] * y[2])
FMul(x, y) == Frac(x[1] * y[1], x[2] * y[2])
FDiv(x, y) == Frac(x[1] * y[2], x[2] * y[1])
FAbs(x) == <<Abs(x[1]), x[2]>>

FSeq(s) == [i \in 1..Len(s) |-> FInt(s[i])]
FStrictlyIncreasing(s) == \A i \in 1..(Len(s) - 1) : FLt(s[i], s[i + 1])

(***************************************************************************)
(* stilism_local.py: the cube axes                                         *)
(***************************************************************************)
\* The cube geometries tried: shape, gridstep_values and sun_position (in
\* grid units) per axis.  The second has the sun off the cube centre.
Cubes ==
    { [shape |-> <<5, 5, 3>>,  steps |-> <<2, 2, 1>>, sun |-> <<2, 2, 1>>],
      [shape |-> <<9, 9, 5>>,  steps |-> <<2, 2, 1>>, sun |-> <<4, 4, 2>>],
      [shape |-> <<9, 9, 5>>,  steps |-> <<2, 2, 1>>, sun |-> <<2, 4, 2>>] }

\* x0 = np.arange(ebv.shape[a])*steps[a] - center[a], center = sun*steps
Axis0(c, a) == [i \in 1..c.shape[a] |-> (i - 1) * c.steps[a] - c.sun[a] * c.steps[a]]

\* x0[-1], y0[-1], z0[-1]
AxisLast(c, a) == Axis0(c, a)[c.shape[a]]

(***************************************************************************)
(* stilism_local.py: gal_to_xyz                                            *)
(***************************************************************************)
\* Sight lines are the directions (l, b) whose direction cosines are
\* rational: cos b cos l = c[1]/den, cos b sin l = c[2]/den, sin b = c[3]/den.
Directions ==
    { [l |-> 0,   b |-> 0,  c |-> <<1, 0, 0>>,  den |-> 1],
      [l |-> 90,  b |-> 0,  c |-> <<0, 1, 0>>,  den |-> 1],
      [l |-> 180, b |-> 0,  c |-> <<-1, 0, 0>>, den |-> 1],
      [l |-> 0,   b |-> 90, c |-> <<0, 0, 1>>,  den |-> 1],
      [l |-> 53,  b |-> 0,  c |-> <<3, 4, 0>>,  den |-> 5] }

\* the coordinate on axis a of the point at distance dist, times dir.den
gal_to_xyz(dir, dist, a) == dist * dir.c[a]

(***************************************************************************)
(* stilism_local.py: generate_distances                                    *)
(***************************************************************************)
\* np.arange(dmin, dmax + 0.1*dstep, dstep): the values dmin + k*dstep that
\* are below dmax + dstep/10 (compared after multiplying by 10).
ArangeLen(dmin, dmax, dstep) ==
    LET span == 10 * dmax + dstep - 10 * dmin
    IN  IF span <= 0 THEN 0 ELSE (span + 10 * dstep - 1) \div (10 * dstep)

generate_distances(dmax, dmin, dstep) ==
    [k \in 1..ArangeLen(dmin, dmax, dstep) |-> dmin + (k - 1) * dstep]

(***************************************************************************)
(* stilism_local.py: find_max_distance                                     *)
(***************************************************************************)
\* bInCube: |x| < x0[-1] & |y| < y0[-1] & |z| < z0[-1]
bInCube(c, dir, dist) ==
    \A a \in 1..3 : Abs(gal_to_xyz(dir, dist, a)) < dir.den * AxisLast(c, a)

\* Returns [raised, distMax].  np.max of an empty selection raises
\* ValueError; an empty dists array returns 0.
find_max_distance(c, dir, dists) ==
    IF Len(dists) < 1
    THEN [raised |-> "none", distMax |-> 0]
    ELSE LET inside == {dists[i] : i \in {j \in 1..Len(dists) : bInCube(c, dir, dists[j])}}
         IN  IF inside = {}
             THEN [raised |-> "ValueError", distMax |-> 0]
             ELSE [raised |-> "none",
                   distMax |-> CHOOSE m \in inside : \A d \in inside : d <= m]

(***************************************************************************)
(* stilism_local.py: rgi and get_ebv_lallement                             *)
(***************************************************************************)
\* What the cube holds at grid node (i, j, k), counted from 1: "smooth"
\* is positive everywhere, "signed" has negative nodes.
Densities == {"smooth", "signed"}
ebvNode(dens, i, j, k) ==
    IF dens = "signed" /\ (i + j + k) % 3 = 0 THEN -1
    ELSE 1 + ((i + 2 * j + k) % 3)

\* xyz of the point at distance dist on the sight line
xyzAt(dir, dist) == [a \in 1..3 |-> Frac(gal_to_xyz(dir, dist, a), dir.den)]

\* (mutant) only the upper end of each axis is tested
outOfBounds_UpperOnly(c, pt) ==
    \E a \in 1..3 : FGt(pt[a], FInt(AxisLast(c, a)))

\* RegularGridInterpolator with bounds_error=False: a point is out of
\* bounds when a coordinate is below the first or above the last grid value.
outOfBounds(c, pt) ==
    \E a \in 1..3 : \/ FLt(pt[a], FInt(Axis0(c, a)[1]))
                    \/ FGt(pt[a], FInt(AxisLast(c, a)))

\* The grid interval of axis a that holds x, counted from 1, and the
\* position of x in it
cellOf(c, a, x) ==
    LET t == FDiv(FSub(x, FInt(Axis0(c, a)[1])), FInt(c.steps[a]))
        f == t[1] \div t[2]
        i == IF f > c.shape[a] - 2 THEN c.shape[a] - 2 ELSE f
    IN  [i |-> i + 1, w |-> FSub(t, FInt(i))]

lerp(v0, v1, w) == FAdd(v0, FMul(w, FSub(v1, v0)))

\* rgi(pt): linear interpolation inside the grid, fill_value=0. outside
rgi(c, dens, pt) ==
    IF outOfBounds(c, pt) THEN FInt(0)
    ELSE Value(<<cellOf(c, 1, pt[1]), cellOf(c, 2, pt[2]), cellOf(c, 3, pt[3])>>,
               LAMBDA q :
                  LET v(i, j, k) == FInt(ebvNode(dens, q[1].i + i, q[2].i + j, q[3].i + k))
                      face(k) == lerp(lerp(v(0, 0, k), v(1, 0, k), q[1].w),
                                      lerp(v(0, 1, k), v(1, 1, k), q[1].w),
                                      q[2].w)
                  IN  lerp(face(0), face(1), q[3].w))

\* (mutant) the products are returned without the running sum
cumsum_NoSum(s) == s

\* np.cumsum
cumsum(s) ==
    LET f[i \in 0..Len(s)] == IF i = 0 THEN FInt(0) ELSE FAdd(f[i - 1], s[i])
    IN  [i \in 1..Len(s) |-> f[i]]

\* (mutant) the first step is left as np.roll gives it
d_stepOf_Rolled(d) ==
    [i \in 1..Len(d) |-> IF i = 1 THEN d[1] - d[Len(d)] ELSE d[i] - d[i - 1]]

\* Lines 93-95: d_step = d_interp - np.roll(d_interp, 1); d_step[0] = d_step[1]
d_stepOf(d) ==
    [i \in 1..Len(d) |-> IF i = 1 THEN d[2] - d[1] ELSE d[i] - d[i - 1]]

\* get_ebv_lallement(l, b, dist, dmin, dstep, distances): the exception
\* raised, or the three values returned (with ebv_interp and d_step).
get_ebv_lallement(c, dens, dir, dist, dmin, dstep, distances) ==
    Value(IF Len(distances) < 1 THEN generate_distances(dist, dmin, dstep)
          ELSE distances,
          LAMBDA d :
             IF Len(d) < 2
             THEN \* d_step[1] of an array of fewer than two elements
                  [raised |-> "IndexError", d_interp |-> d, distMax |-> 0,
                   ebv_interp |-> <<>>, d_step |-> <<>>, ebv |-> <<>>]
             ELSE IF find_max_distance(c, dir, d).raised # "none"
             THEN [raised |-> find_max_distance(c, dir, d).raised,
                   d_interp |-> d, distMax |-> 0,
                   ebv_interp |-> <<>>, d_step |-> <<>>, ebv |-> <<>>]
             ELSE Value([i \in 1..Len(d) |-> rgi(c, dens, xyzAt(dir, d[i]))],
                        LAMBDA e :
                           [raised |-> "none", d_interp |-> d,
                            distMax |-> find_max_distance(c, dir, d).distMax,
                            ebv_interp |-> e, d_step |-> d_stepOf(d),
                            ebv |-> cumsum([i \in 1..Len(d) |->
                                       FMul(e[i], FInt(d_stepOf(d)[i]))])]))

(***************************************************************************)
(* compareExtinctions.py: class lineofsight                                *)
(***************************************************************************)
DistLimInit == 1000000000   \* self.distLimPc = 1e9, "initialize very high"
MarginSteps == 5            \* distMax + 5*self.distStepPc
CoarseFallback == 10        \* nBinsFar = 10 when nFine > nTotal

\* lineofsight.__init__: distances is the (possibly empty) supplied grid.
lineofsight(dir, distMaxPc, distMinPc, distStepPc, distances, distMaxCoarsePc, nDistBins) ==
    [stage            |-> "constructed",
     dir              |-> dir,
     distMaxPc        |-> FInt(distMaxPc),
     distMinPc        |-> FInt(distMinPc),
     distStepPc       |-> FInt(distStepPc),
     distMaxCoarsePc  |-> distMaxCoarsePc,
     nDistBins        |-> nDistBins,
     distsPc          |-> distances,
     distLimPc        |-> FInt(DistLimInit),
     distStepCoarsePc |-> NaN,
     nClose           |-> 0,
     nBinsFar         |-> 0,
     warned           |-> FALSE,
     objBovy          |-> 0,
     ebvBovy          |-> <<>>,
     raised           |-> "none"]

\* What the external model self.objBovy returns for the distances: one
\* value per distance, of either sign, zero or infinite.
OracleKinds == 0..4
objBovy(kind, dists) ==
    [i \in 1..Len(dists) |->
        IF kind = 4 THEN (IF i % 2 = 1 THEN <<-1, 0>> ELSE <<1, 0>>)
        ELSE Frac(((i * (kind + 1) + kind) % 5) - 2, 2)]

\* (mutant) the values of the external model are kept as they come
clampNegative_Keep(a) == a

\* Lines 205-206: bLo = self.ebvBovy < 0.; self.ebvBovy[bLo] = 0.
clampNegative(a) ==
    [i \in 1..Len(a) |-> IF FLt(a[i], FInt(0)) THEN FInt(0) ELSE a[i]]

\* lineofsight.getBovyEBV
getBovyEBV(self) ==
    [self EXCEPT !.stage = "evaluated",
                 !.ebvBovy = clampNegative(objBovy(self.objBovy, self.distsPc))]

\* np.linspace(start, stop, n, endpoint=False): start + i*(stop-start)/n
linspace(start, stop, n) ==
    [i \in 1..n |-> Frac(n * start + (i - 1) * (stop - start), n)]

\* The remaining bin count after the warning branch (lines 125-137).
nBinsFarOf(nDistBins, nClose) ==
    IF nDistBins - nClose < 0 THEN CoarseFallback ELSE nDistBins - nClose

\* (mutant) the coarse array is not shifted by one coarse step
shiftCoarse_NoShift(distsFar) == distsFar

\* Lines 147-148: distsFar += distsFar[1] - distsFar[0]
shiftCoarse(distsFar) ==
    [i \in 1..Len(distsFar) |-> FAdd(distsFar[i], FSub(distsFar[2], distsFar[1]))]

\* lineofsight.generateDistances from line 112 on, found being what
\* find_max_distance returned for this sight line.  An exception leaves the
\* fields assigned before it in place and is recorded in raised.
generateDistancesFrom(self, found) ==
    LET dmin      == self.distMinPc[1]
        dstep     == self.distStepPc[1]
        distLimPc == found.distMax + MarginSteps * dstep
        distsClose == generate_distances(distLimPc, dmin, dstep)
        nBinsFar  == nBinsFarOf(self.nDistBins, Len(distsClose))
        warned    == self.nDistBins - Len(distsClose) < 0
        distsFar  == linspace(SeqMax(distsClose), self.distMaxCoarsePc, nBinsFar)
        stepCoarse == FSub(distsFar[2], distsFar[1])
        shifted   == shiftCoarse(distsFar)
        distsPc   == FSeq(distsClose) \o shifted
        lo        == CHOOSE m \in {distsPc[i] : i \in 1..Len(distsPc)} :
                        \A i \in 1..Len(distsPc) : FLe(m, distsPc[i])
        hi        == CHOOSE m \in {distsPc[i] : i \in 1..Len(distsPc)} :
                        \A i \in 1..Len(distsPc) : FLe(distsPc[i], m)
    IN  IF found.raised # "none"
        THEN [self EXCEPT !.stage = "generated", !.raised = found.raised]
        ELSE IF Len(distsClose) < 1
        THEN [self EXCEPT !.stage = "generated", !.raised = "ValueError",
                          !.distLimPc = FInt(distLimPc)]
        ELSE IF nBinsFar < 2
        THEN \* distsFar[1] - distsFar[0] on an array of fewer than 2 elements
             [self EXCEPT !.stage = "generated", !.raised = "IndexError",
                          !.distLimPc = FInt(distLimPc),
                          !.nClose = Len(distsClose),
                          !.nBinsFar = nBinsFar, !.warned = warned]
        ELSE [self EXCEPT !.stage = "generated",
                          !.distLimPc = FInt(distLimPc),
                          !.nClose = Len(distsClose),
                          !.nBinsFar = nBinsFar, !.warned = warned,
                          !.distStepCoarsePc = stepCoarse,
                          !.distsPc = distsPc,
                          !.distMinPc = lo,
                          !.distMaxPc = hi,
                          !.distStepPc = FDiv(FSub(hi, lo), FInt(Len(distsPc)))]

\* lineofsight.generateDistances
generateDistances(c, self) ==
    generateDistancesFrom(self,
        find_max_distance(c, self.dir,
            generate_distances(self.distMaxPc[1], self.distMinPc[1],
                               self.distStepPc[1])))

(***************************************************************************)
(* compareExtinctions.py: hybridSightline, the sample grid (lines 438-493) *)
(*                                                                         *)
(* Angles are whole arcminutes.  The celestial transforms are library      *)
(* calls; they are modelled by their contract: a rotation of the sphere    *)
(* (here about the polar axis, by GalNode) that returns the galactic       *)
(* longitude in [0, 360) degrees.                                          *)
(***************************************************************************)
FullCircle == 21600       \* 360 degrees
HalfCircle == 10800       \* 180 degrees, the wraparound limit of line 476
QuarterCircle == 5400     \* 90 degrees, the declination limit of line 467
GalNode == 1980           \* rotation between the two frames (33 degrees)
CollisionArcmin == 2      \* collisionArcmin=2.

\* hp.nside2resol(nside, arcmin=True), to the arcminute
nside2resol(nside) == IF nside = 1 THEN 3518 ELSE IF nside = 2 THEN 1759 ELSE 55

\* hp.nside2npix
nside2npix(nside) == 12 * nside * nside

\* hp.pix2ang(nside, hpid, nested, lonlat=True) for the base resolution:
\* pixel centres of the three rings of nside = 1.
pix2ang(hpid) ==
    IF hpid < 4 THEN [ra |-> 2700 + 5400 * hpid, dec |-> 2509]
    ELSE IF hpid < 8 THEN [ra |-> 5400 * (hpid - 4), dec |-> 0]
    ELSE [ra |-> 2700 + 5400 * (hpid - 8), dec |-> -2509]

\* SkyCoord(ra, dec, frame='icrs').galactic
icrs2gal(ra, dec) == [l |-> (ra + GalNode) % FullCircle, b |-> dec]

\* SkyCoord(l, b, frame='galactic').icrs
gal2icrs(l, b) == [ra |-> (l - GalNode) % FullCircle, dec |-> b]

\* np.linspace(-1., 1., n, endpoint=True) for n <= 3
linspaceUnit(n) ==
    IF n = 0 THEN <<>> ELSE IF n = 1 THEN <<-1>>
    ELSE IF n = 2 THEN <<-1, 1>> ELSE <<-1, 0, 1>>

\* Lines 453-461: the field centre, [lCen, bCen, raCen, deCen].
fieldCentre(lCen, bCen, hpid) ==
    IF hpid < 0
    THEN LET eq == gal2icrs(lCen, bCen)
         IN  [lCen |-> lCen, bCen |-> bCen, raCen |-> eq.ra, deCen |-> eq.dec]
    ELSE LET eq == pix2ang(hpid)
             g  == icrs2gal(eq.ra, eq.dec)
         IN  [lCen |-> g.l, bCen |-> g.b, raCen |-> eq.ra, deCen |-> eq.dec]

\* Lines 476-477: vL[vL > 180.] -= 360.
wrapL(vL) == IF vL > HalfCircle THEN vL - FullCircle ELSE vL

\* Lines 484-486: the sample at galactic (vL, vB), vL already wrapped, is
\* kept when it is farther than collisionArcmin from the centre.
bSamplesKeep(cen, vL, vB, collisionArcmin) ==
    /\ (vL - cen.lCen) * (vL - cen.lCen) + (vB - cen.bCen) * (vB - cen.bCen)
           > collisionArcmin * collisionArcmin
    /\ vB >= -QuarterCircle /\ vB <= QuarterCircle

\* Lines 439-493: the set of kept samples, each [dL, dB, vL, vB] with
\* (dL, dB) its offset from the centre in RA and DEC.
keptSamples(cen, nside, pixFillFac, nl, nb, collisionArcmin) ==
    LET pixEdge == IF pixFillFac < 1 THEN pixFillFac ELSE 1
        w  == nside2resol(nside) * pixEdge
        dL == [k \in 1..nl |-> w * linspaceUnit(nl)[k]]
        dB == [k \in 1..nb |-> w * linspaceUnit(nb)[k]]
        onSphere == {<<i, j>> \in (1..nl) \X (1..nb) :
                        /\ dB[j] + cen.deCen >= -QuarterCircle
                        /\ dB[j] + cen.deCen <= QuarterCircle}
        gal(ij) == icrs2gal(dL[ij[1]] + cen.raCen, dB[ij[2]] + cen.deCen)
    IN  {[dL |-> dL[ij[1]], dB |-> dB[ij[2]],
          vL |-> wrapL(gal(ij).l), vB |-> gal(ij).b] :
            ij \in {x \in onSphere :
                      bSamplesKeep(cen, wrapL(gal(x).l), gal(x).b, collisionArcmin)}}

(***************************************************************************)
(* compareExtinctions.py: hybridSightline, merging the medians (579-650)   *)
(***************************************************************************)
MinEBV == 2            \* minEBV=1.0e-3, in model units of 0.5e-3
DiffRatioMin == <<1, 2>>   \* diffRatioMin=0.5
MinDistL19 == 10       \* minDistL19, in model distance units

\* (mutant) the closeness test is not limited to the model-A range
bNear_NoLimit(distsMed, ebvL19Med, ebvBovyMed, distLimPc, diffRatioMin) ==
    {i \in 1..Len(distsMed) :
        /\ FGt(ebvL19Med[i], FInt(0))
        /\ FGt(ebvBovyMed[i], FInt(0))
        /\ FLt(FAbs(FSub(FDiv(ebvBovyMed[i], ebvL19Med[i]), FInt(1))), diffRatioMin)}

\* Lines 590-592: the bins where the two medians are close.
bNear(distsMed, ebvL19Med, ebvBovyMed, distLimPc, diffRatioMin) ==
    {i \in 1..Len(distsMed) :
        /\ FLe(distsMed[i], distLimPc)
        /\ FGt(ebvL19Med[i], FInt(0))
        /\ FGt(ebvBovyMed[i], FInt(0))
        /\ FLt(FAbs(FSub(FDiv(ebvBovyMed[i], ebvL19Med[i]), FInt(1))), diffRatioMin)}

\* Lines 581-600: distCompare.
distCompareOf(distsMed, ebvL19Med, ebvBovyMed, distLimPc, distFrac, setLimDynamically, diffRatioMin, minDistL19) ==
    LET default == FMul(distLimPc, distFrac)
        near    == bNear(distsMed, ebvL19Med, ebvBovyMed, distLimPc, diffRatioMin)
        distMinCalc == CHOOSE m \in {distsMed[i] : i \in near} :
                           \A i \in near : FLe(distsMed[i], m)
    IN  IF setLimDynamically /\ near # {} /\ FGt(distMinCalc, minDistL19)
        THEN distMinCalc
        ELSE default

\* Line 609: np.argmin(np.abs(distsMed - distCompare)), the first minimum.
iMaxL19Of(distsMed, distCompare) ==
    LET gap(i) == FAbs(FSub(distsMed[i], distCompare))
    IN  CHOOSE i \in 1..Len(distsMed) :
            /\ \A j \in 1..Len(distsMed) : FLe(gap(i), gap(j))
            /\ \A j \in 1..(i - 1) : FLt(gap(i), gap(j))

\* (mutant) the scale factor is computed without the minEBV guard
rvFactorOf_NoFloor(ebvL19Med, ebvBovyMed, iMaxL19, minEBV) ==
    FDiv(ebvL19Med[iMaxL19], ebvBovyMed[iMaxL19])

\* Lines 607-611: rvFactor.
rvFactorOf(ebvL19Med, ebvBovyMed, iMaxL19, minEBV) ==
    IF FGt(ebvBovyMed[iMaxL19], minEBV)
    THEN FDiv(ebvL19Med[iMaxL19], ebvBovyMed[iMaxL19])
    ELSE FInt(1)

\* Line 623: ebvL19scaled = ebvL19Med/rvFactor
ebvL19scaledOf(ebvL19Med, rvFactor) ==
    [i \in 1..Len(ebvL19Med) |-> FDiv(ebvL19Med[i], rvFactor)]

\* (mutant) the transition distance itself is counted as model-A range
b19Of_Inclusive(distsMed, distCompare) ==
    {i \in 1..Len(distsMed) : FLe(distsMed[i], distCompare)}

\* Line 622: b19 = distsMed < distCompare
b19Of(distsMed, distCompare) ==
    {i \in 1..Len(distsMed) : FLt(distsMed[i], distCompare)}

\* Lines 621-634: ebvHybrid.
ebvHybridOf(distsMed, ebvBovyMed, ebvL19scaled, distCompare, minEBV) ==
    LET b19 == b19Of(distsMed, distCompare)
        first == [i \in 1..Len(distsMed) |->
                     IF i \in b19 THEN ebvL19scaled[i] ELSE ebvBovyMed[i]]
    IN  [i \in 1..Len(distsMed) |->
            IF FLt(first[i], minEBV) THEN ebvL19scaled[i] ELSE first[i]]

\* Lines 646-650 and 747-748: what the call returns.  None stands for
\* Python's None.
None == [isNone |-> TRUE]

returnedScale(doPlots, rvFactor) == IF doPlots THEN rvFactor ELSE FInt(1)

hybridReturn(doPlots, returnValues, ebvHybrid, distsMed, rvFactor) ==
    IF returnValues
    THEN [isNone |-> FALSE, ebvHybrid |-> ebvHybrid, distsMed |-> distsMed,
          rvFactor |-> returnedScale(doPlots, rvFactor)]
    ELSE None

(***************************************************************************)
(* compareExtinctions.py: writeExtmap                                      *)
(*                                                                         *)
(* A path is <<directory, file name, nside, hpmin, hpmax>>; the last three *)
(* are the numbers formatted into an auto-generated tile name.  The file   *)
(* system is a set of [path, hdul] records.  A Python value whose type the *)
(* code depends on is [py |-> type, val |-> value].                        *)
(***************************************************************************)
PyDict(d) == [py |-> "dict", val |-> d]
PyStr(x) == [py |-> "str", val |-> x]
PyArray(a) == [py |-> "array", val |-> a]

EmptyArray == PyArray(<<>>)      \* np.array([])
EmptyHeader == <<>>              \* header=None: no template cards
DefaultFitsPath == <<"", "test.fits", 0, 0, 0>>   \* fitsPath='test.fits'

\* astropy stores a header keyword in upper case
fitsKey(k) ==
    CASE k = "nside" -> "NSIDE" [] k = "nested" -> "NESTED"
      [] k = "hpmin" -> "HPMIN" [] k = "hpmax" -> "HPMAX"
      [] k = "nbins" -> "NBINS" [] k = "nl" -> "NL" [] k = "nb" -> "NB"
      [] k = "fracPix" -> "FRACPIX" [] OTHER -> k

\* Lines 896-898: the primary header, template cards overwritten by dMeta
primaryHeader(header, dMeta) ==
    LET new == {fitsKey(k) : k \in DOMAIN dMeta}
    IN  [K \in (DOMAIN header) \cup new |->
            IF K \in new
            THEN dMeta[CHOOSE k \in DOMAIN dMeta : fitsKey(k) = K]
            ELSE header[K]]

\* '%i' % n: the characters of an integer
Digit(d) == <<"0", "1", "2", "3", "4", "5", "6", "7", "8", "9">>[d + 1]

RECURSIVE digits(_)
digits(n) ==
    IF n < 0 THEN <<"-">> \o digits(-n)
    ELSE IF n < 10 THEN <<Digit(n)>>
    ELSE digits(n \div 10) \o <<Digit(n % 10)>>

\* (mutant) the pixel range is left out of the file name
fitsChunk_NoRange(nside, imin, imax) ==
    <<"ebv3d_nside">> \o digits(nside) \o <<".fits">>

\* Line 802: 'ebv3d_nside%i_hp%i_%i.fits' % (nside, imin, imax)
fitsChunk(nside, imin, imax) ==
    <<"ebv3d_nside">> \o digits(nside) \o <<"_hp">> \o digits(imin)
        \o <<"_">> \o digits(imax) \o <<".fits">>

\* The file name a path stands for, as the file system sees it
pathString(path) ==
    (IF path[1] = "" THEN <<>> ELSE <<path[1], "/">>)
       \o (IF path[2] = "ebv3d" THEN fitsChunk(path[3], path[4], path[5])
           ELSE <<path[2]>>)

\* hdul.writeto(fitsPath, overwrite=True)
writeto(files, fitsPath, hdul) ==
    {f \in files : pathString(f.path) # pathString(fitsPath)}
        \cup {[path |-> fitsPath, hdul |-> hdul]}

\* writeExtmap(hpids, dists, ebvs, sfacs, masks, dMeta, header, fitsPath):
\* returns the file system after the call and the exception raised, if any.
writeExtmap(files, hpids, dists, ebvs, sfacs, masks, dMeta, header, fitsPath) ==
    IF Len(hpids) < 1
    THEN [files |-> files, raised |-> "none", wrote |-> FALSE]
    ELSE IF dMeta.py # "dict"
    THEN \* dMeta.keys() on a value that is no dictionary
         [files |-> files, raised |-> "AttributeError", wrote |-> FALSE]
    ELSE IF masks.py # "array"
    THEN [files |-> files, raised |-> "TypeError", wrote |-> FALSE]
    ELSE [files |-> writeto(files, fitsPath,
                       [hdr   |-> primaryHeader(header, dMeta.val),
                        hpids |-> hpids, dists |-> dists, ebvs |-> ebvs,
                        sfacs |-> sfacs, masks |-> masks.val, nHdu |-> 5]),
          raised |-> "none", wrote |-> TRUE]

(***************************************************************************)
(* compareExtinctions.py: loopSightlines                                   *)
(***************************************************************************)
DefaultImin == 25        \* imin = np.max([imax - 25, 0])
LoopMaxPc == 9           \* hybridSightline maxPc, in model units
LoopMinPc == 1           \* hybridSightline minPc, in model units
LoopStepPc == 2          \* hybridSightline stepPc, in model units
LoopMaxCoarsePc == 60    \* lineofsight distMaxCoarsePc, in model units

\* len() of the path strings tried
strlen(x) ==
    CASE x = "" -> 0 [] x = "tile.fits" -> 9 [] x = "./ebvChunks" -> 11
      [] x = "merged.fits" -> 11 [] x = "tmp_merged.fits" -> 15
      [] x = "test_mergedmaps.fits" -> 20 [] OTHER -> 9

\* What the cube and the external model hold for the sight lines of pixel
\* hpid: the cube's validity edge and the two median curves on n bins.
Skies == {"uniform", "patchy"}
skyEdge(sky, hpid) == IF sky = "patchy" /\ hpid % 2 = 1 THEN 7 ELSE 3
skyL19(sky, hpid, n) == [i \in 1..n |-> FInt((i + hpid) % 4)]
skyBovy(sky, hpid, n) == [i \in 1..n |-> FInt((2 * i + hpid) % 5)]

\* Lines 571-634 on the grid of the central sight line: the medians, the
\* transition, the scale factor and the merged curve.
mergeOnGrid(l19, bovy, distsMed, distLimPc) ==
    LET distCompare == distCompareOf(distsMed, l19, bovy, distLimPc,
                                     FInt(1), FALSE, DiffRatioMin,
                                     FInt(MinDistL19))
    IN  Value(rvFactorOf(l19, bovy, iMaxL19Of(distsMed, distCompare),
                         FInt(MinEBV)),
              LAMBDA rv :
                 [ebvHybrid |-> ebvHybridOf(distsMed, bovy,
                                    Value(ebvL19scaledOf(l19, rv), LAMBDA x : x),
                                    distCompare, FInt(MinEBV)),
                  rvFactor |-> rv])

\* hybridSightline as loopSightlines calls it (lines 840-854): centre
\* from hpid, setLimDynamically=False, useTwoBinnings=True, doPlots=False,
\* returnValues=True.  Gives [raised, ret, report].
hybridSightlineOn(sky, hpid, losCen) ==
    IF losCen.raised # "none"
    THEN [raised |-> losCen.raised, ret |-> None, report |-> ""]
    ELSE Value(mergeOnGrid(skyL19(sky, hpid, Len(losCen.distsPc)),
                           skyBovy(sky, hpid, Len(losCen.distsPc)),
                           losCen.distsPc, losCen.distLimPc),
               LAMBDA m :
                  [raised |-> "none",
                   ret |-> hybridReturn(FALSE, TRUE, m.ebvHybrid,
                                        losCen.distsPc, m.rvFactor),
                   report |-> ""])

hybridSightlineAt(sky, hpid, cen, nside, nbins, nl, nb, fracPix) ==
    IF Cardinality(keptSamples(cen, nside, fracPix, nl, nb, CollisionArcmin)) < 1
    THEN [raised |-> "none", ret |-> None, report |-> "WATCHOUT - no samples kept"]
    ELSE Value(generateDistancesFrom(
                   lineofsight([l |-> cen.lCen, b |-> cen.bCen],
                               LoopMaxPc, LoopMinPc, LoopStepPc, <<>>,
                               LoopMaxCoarsePc, nbins),
                   [raised |-> "none", distMax |-> skyEdge(sky, hpid)]),
               LAMBDA losCen : hybridSightlineOn(sky, hpid, losCen))

hybridSightlineCall(sky, hpid, nside, nbins, nl, nb, fracPix) ==
    Value(fieldCentre(0, 0, hpid),
          LAMBDA cen : hybridSightlineAt(sky, hpid, cen, nside, nbins,
                                         nl, nb, fracPix))

\* Tile files that other batches left in the directory, and a file at the
\* default path of writeExtmap.
OtherBatches == {<<1, 0, 2>>, <<1, 2, 7>>, <<1, -1, 3>>, <<2, 0, 3>>}
otherTile(path, n) ==
    [path |-> path,
     hdul |-> [hdr |-> EmptyHeader, hpids |-> [k \in 1..n |-> k - 1],
               dists |-> [k \in 1..n |-> <<FInt(1)>>],
               ebvs |-> [k \in 1..n |-> <<FInt(1)>>],
               sfacs |-> [k \in 1..n |-> FInt(1)],
               masks |-> <<>>, nHdu |-> 5]]
OtherFiles ==
    {otherTile(<<dir, "ebv3d", t[1], t[2], t[3]>>, t[3] - t[2]) :
        t \in OtherBatches, dir \in {"", "./ebvChunks"}}
      \cup {otherTile(DefaultFitsPath, 1)}

\* The state of a call that has not run yet.
LoopCalled(args) ==
    [stage |-> "called", args |-> args,
     npix |-> 0, imin |-> args.imin, imax |-> args.imax, nSightlines |-> 0,
     fitsPath |-> DefaultFitsPath, madeDir |-> FALSE,
     hpids |-> <<>>, dists |-> <<>>, ebvs |-> <<>>, sfacs |-> <<>>,
     dMeta |-> <<>>, iHP |-> 0,
     log |-> <<>>, files |-> OtherFiles, nWrites |-> 0, raised |-> "none"]

\* Lines 801-808: the output path.
fitsPathOf(fitsPath, dirChunks, nside, imin, imax) ==
    IF strlen(fitsPath) < 4
    THEN IF strlen(dirChunks) > 3
         THEN <<dirChunks, "ebv3d", nside, imin, imax>>
         ELSE <<"", "ebv3d", nside, imin, imax>>
    ELSE <<"", fitsPath, 0, 0, 0>>

\* Lines 787-788
imaxOf(imax, npix) == IF imax < 0 \/ imax > npix THEN npix ELSE imax

\* Lines 791-792
iminOf(imin, imax) ==
    IF imin > imax
    THEN (IF imax - DefaultImin > 0 THEN imax - DefaultImin ELSE 0)
    ELSE imin

\* (mutant) the scale factors start at zero
sfacsInit_Zeros(n) == [k \in 1..n |-> FInt(0)]

\* Line 822: sfacs = np.ones(nSightlines)
sfacsInit(n) == [k \in 1..n |-> FInt(1)]

\* Lines 780-837: everything before the loop.
loopSetup(self) ==
    LET a    == self.args
        npix == nside2npix(a.nside)
        imax == imaxOf(a.imax, npix)
        imin == iminOf(a.imin, imax)
        n    == imax - imin
    IN  [self EXCEPT
            !.stage = "looping",
            !.npix = npix, !.imax = imax, !.imin = imin, !.nSightlines = n,
            !.log = IF a.imin > imax
                    THEN Append(self.log, "WARN - supplied imax > imin")
                    ELSE self.log,
            !.fitsPath = fitsPathOf(a.fitsPath, a.dirChunks, a.nside, imin, imax),
            !.madeDir = strlen(a.fitsPath) < 4 /\ strlen(a.dirChunks) > 3,
            !.hpids = [k \in 1..n |-> imin + k - 1],
            !.dists = [k \in 1..n |-> [j \in 1..a.nbins |-> FInt(0)]],
            !.ebvs  = [k \in 1..n |-> [j \in 1..a.nbins |-> FInt(0)]],
            !.sfacs = sfacsInit(n),
            !.dMeta = [nside |-> a.nside, nested |-> a.nested,
                       hpmin |-> imin, hpmax |-> imax, nbins |-> a.nbins,
                       nl |-> a.nl, nb |-> a.nb, fracPix |-> a.fracPix],
            !.iHP = 0]

\* Line 864: is the tile written after the pixel of index iHP?
writesAfter(iHP, reportInterval) ==
    iHP >= reportInterval /\ iHP % reportInterval < 1

\* Lines 839-870: the loop body for index self.iHP (0-based as in the code).
loopBody(self, call) ==
    LET a    == self.args
        row  == self.iHP + 1
        logged == IF call.report = "" THEN self.log
                  ELSE Append(self.log, call.report)
        dists == [self.dists EXCEPT ![row] = call.ret.distsMed]
        ebvs  == [self.ebvs EXCEPT ![row] = call.ret.ebvHybrid]
        sfacs == [self.sfacs EXCEPT ![row] = call.ret.rvFactor]
        w    == writeExtmap(self.files, self.hpids, dists, ebvs, sfacs,
                            EmptyArray, PyDict(self.dMeta), EmptyHeader,
                            self.fitsPath)
    IN  IF call.raised # "none"
        THEN [self EXCEPT !.stage = "raised", !.raised = call.raised,
                          !.log = logged]
        ELSE IF call.ret.isNone
        THEN \* unpacking None into three names
             [self EXCEPT !.stage = "raised", !.raised = "TypeError",
                          !.log = logged]
        ELSE IF Len(call.ret.distsMed) # a.nbins
        THEN \* dists[iHP] = distsThis with a row of another length
             [self EXCEPT !.stage = "raised", !.raised = "ValueError",
                          !.log = logged]
        ELSE IF writesAfter(self.iHP, a.reportInterval)
        THEN IF w.raised # "none"
             THEN [self EXCEPT !.stage = "raised", !.raised = w.raised,
                               !.dists = dists, !.ebvs = ebvs, !.sfacs = sfacs]
             ELSE [self EXCEPT !.dists = dists, !.ebvs = ebvs, !.sfacs = sfacs,
                               !.files = w.files,
                               !.nWrites = self.nWrites + 1,
                               !.log = Append(logged, "INFO - written"),
                               !.iHP = self.iHP + 1]
        ELSE [self EXCEPT !.dists = dists, !.ebvs = ebvs, !.sfacs = sfacs,
                          !.log = logged, !.iHP = self.iHP + 1]

\* Line 873: writeExtmap(hpids, dists, ebvs, sfacs, dMeta, fitsPath).  The
\* fifth and sixth positional parameters of writeExtmap are masks and
\* dMeta, so dMeta arrives as masks, fitsPath as dMeta, and the path
\* written is the default one.
loopFinalWrite(self) ==
    LET w == writeExtmap(self.files, self.hpids, self.dists, self.ebvs,
                         self.sfacs, PyDict(self.dMeta), PyStr(self.fitsPath),
                         EmptyHeader, DefaultFitsPath)
    IN  IF w.raised # "none"
        THEN [self EXCEPT !.stage = "raised", !.raised = w.raised]
        ELSE [self EXCEPT !.stage = "done", !.files = w.files,
                          !.nWrites = self.nWrites + (IF w.wrote THEN 1 ELSE 0)]

(***************************************************************************)
(* Specification SpecLoop: one call of loopSightlines                      *)
(***************************************************************************)
LoopArgs ==
    [nside : {1}, imin : {-1, 0, 2, 5}, imax : {-1, 1, 2, 3, 7, 13},
     nbins : {6, 9, 11}, nested : {FALSE},
     nl : {0, 3}, nb : {3}, reportInterval : {1, 2, 100},
     fitsPath : {"", "tile.fits"}, dirChunks : {"./ebvChunks"},
     fracPix : {0, 1}, sky : Skies]

LoopInit ==
    /\ cube = CHOOSE c \in Cubes : c.shape[1] = 5
    /\ \E args \in LoopArgs : loop = LoopCalled(args)
    /\ los = Idle /\ hyb = Idle /\ mrg = Idle
    /\ ebv3d = Idle
    /\ ray = Idle

LoopSetup ==
    /\ loop.stage = "called"
    /\ loop' = loopSetup(loop)
    /\ UNCHANGED <<cube, los, hyb, mrg, ebv3d, ray>>

LoopPixel ==
    /\ loop.stage = "looping"
    /\ loop.iHP < Len(loop.hpids)
    /\ \E call \in {hybridSightlineCall(loop.args.sky, loop.hpids[loop.iHP + 1],
                                        loop.args.nside, loop.args.nbins,
                                        loop.args.nl, loop.args.nb,
                                        loop.args.fracPix)} :
          loop' = loopBody(loop, call)
    /\ UNCHANGED <<cube, los, hyb, mrg, ebv3d, ray>>

LoopFinalWrite ==
    /\ loop.stage = "looping"
    /\ loop.iHP = Len(loop.hpids)
    /\ loop' = loopFinalWrite(loop)
    /\ UNCHANGED <<cube, los, hyb, mrg, ebv3d, ray>>

LoopNext == LoopSetup \/ LoopPixel \/ LoopFinalWrite

SpecLoop == LoopInit /\ [][LoopNext]_vars

(***************************************************************************)
(* compareExtinctions.py: mergeMaps                                        *)
(***************************************************************************)
MaxTiles == 3            \* most paths the search string matches
NBins == 2               \* distance bins per row of the tiles

DefaultJoined == "test_mergedmaps.fits"    \* line 930

\* np.size of a two-dimensional array
np_size(a) == IF Len(a) = 0 THEN 0 ELSE Len(a) * Len(a[1])

\* The row a numpy index addresses in an array of n rows: a negative index
\* counts from the end.
npIndex(i, n) == IF i < 0 THEN i + n ELSE i

\* (mutant) the rows are slotted one position too far
slotRows_OffByOne(master, rowsThis, data) ==
    [h \in 1..Len(master) |->
        IF \E k \in 1..Len(rowsThis) : rowsThis[k] = h - 2
        THEN data[CHOOSE k \in 1..Len(rowsThis) : rowsThis[k] = h - 2]
        ELSE master[h]]

\* master[rowsThis] = data (rows are 0-based pixel ids)
slotRows(master, rowsThis, data) ==
    [h \in 1..Len(master) |->
        IF \E k \in 1..Len(rowsThis) : npIndex(rowsThis[k], Len(master)) = h - 1
        THEN data[CHOOSE k \in 1..Len(rowsThis) :
                     /\ npIndex(rowsThis[k], Len(master)) = h - 1
                     /\ \A k2 \in (k + 1)..Len(rowsThis) :
                           npIndex(rowsThis[k2], Len(master)) # h - 1]
        ELSE master[h]]

\* (mutant) rows of a tile without mask data keep the initial mask value
clearRows_Keep(master, rowsThis) == master

\* Line 985: maskMaster[rowsThis, :] = 0
clearRows(master, rowsThis) ==
    [h \in 1..Len(master) |->
        IF \E k \in 1..Len(rowsThis) : npIndex(rowsThis[k], Len(master)) = h - 1
        THEN [j \in 1..Len(master[h]) |-> 0]
        ELSE master[h]]

\* Lines 978-982: does the tile carry mask data?
hasMaskOf(hdul) == hdul.nHdu > 4 /\ np_size(hdul.masks) > 0

\* Lines 965-988: one pass of the loop over the input paths.
slotTile(self, hdul) ==
    [self EXCEPT
        !.distsMaster = slotRows(self.distsMaster, hdul.hpids, hdul.dists),
        !.ebvsMaster  = slotRows(self.ebvsMaster, hdul.hpids, hdul.ebvs),
        !.sfacsMaster = slotRows(self.sfacsMaster, hdul.hpids, hdul.sfacs),
        !.maskMaster  = IF hasMaskOf(hdul)
                        THEN slotRows(self.maskMaster, hdul.hpids, hdul.masks)
                        ELSE clearRows(self.maskMaster, hdul.hpids),
        !.iPath = self.iPath + 1]

\* 'tmp_%s' % (os.path.split(pathJoined)[-1])
tmpPath(path) == <<"", "tmp_" \o path[2], path[3], path[4], path[5]>>

\* The state of a call that has not run yet: lPaths is what glob returns
\* for the search string, files the directory it looked in.
MergeCalled(lPaths, pathJoined) ==
    [stage |-> "called", lPaths |-> lPaths,
     pathJoined |-> <<"", pathJoined, 0, 0, 0>>,
     files |-> {lPaths[i] : i \in 1..Len(lPaths)},
     inputs |-> {lPaths[i].path : i \in 1..Len(lPaths)},
     hdr0 |-> EmptyHeader, npix |-> 0, nbins |-> 0,
     distsMaster |-> <<>>, ebvsMaster |-> <<>>, sfacsMaster |-> <<>>,
     maskMaster |-> <<>>, iPath |-> 1,
     log |-> <<>>, raised |-> "none", wrote |-> FALSE]

\* (mutant) an empty list of paths is not noticed
noMatch_Never(lPaths) == FALSE

\* Line 923: len(lPaths) < 1
noMatch(lPaths) == Len(lPaths) < 1

\* Lines 922-963: everything before the loop.
mergeSetup(self) ==
    LET named  == IF strlen(self.pathJoined[2]) < 4
                  THEN <<"", DefaultJoined, 0, 0, 0>>
                  ELSE self.pathJoined
        clash  == \E i \in 1..Len(self.lPaths) : self.lPaths[i].path = named
        first  == CHOOSE i \in 1..Len(self.lPaths) : self.lPaths[i].path = named
        lPaths == IF clash
                  THEN [i \in 1..(Len(self.lPaths) - 1) |->
                           IF i < first THEN self.lPaths[i]
                           ELSE self.lPaths[i + 1]]
                  ELSE self.lPaths
        pathJoined == IF clash THEN tmpPath(named) ELSE named
        noted  == IF clash
                  THEN Append(self.log, "INFO - output path already in input path list")
                  ELSE self.log
        hdr0   == lPaths[1].hdul.hdr
        npix   == nside2npix(hdr0.NSIDE)
        nbins  == hdr0.NBINS
    IN  IF noMatch(self.lPaths)
        THEN [self EXCEPT !.stage = "returned",
                          !.log = Append(self.log, "WARN - no paths match string")]
        ELSE IF Len(lPaths) < 1
        THEN \* lPaths[0] of an empty list
             [self EXCEPT !.stage = "raised", !.raised = "IndexError",
                          !.lPaths = lPaths, !.pathJoined = pathJoined,
                          !.log = noted]
        ELSE IF ~({"NESTED", "NSIDE", "NBINS"} \subseteq DOMAIN hdr0)
        THEN [self EXCEPT !.stage = "returned",
                          !.lPaths = lPaths, !.pathJoined = pathJoined,
                          !.hdr0 = hdr0,
                          !.log = Append(noted, "WARN - problem reading header keywords")]
        ELSE [self EXCEPT !.stage = "merging",
                          !.lPaths = lPaths, !.pathJoined = pathJoined,
                          !.hdr0 = hdr0, !.npix = npix, !.nbins = nbins,
                          !.distsMaster = [h \in 1..npix |-> [j \in 1..nbins |-> FInt(0)]],
                          !.ebvsMaster  = [h \in 1..npix |-> [j \in 1..nbins |-> FInt(0)]],
                          !.sfacsMaster = [h \in 1..npix |-> FInt(0)],
                          !.maskMaster  = [h \in 1..npix |-> [j \in 1..nbins |-> 1]],
                          !.log = noted, !.iPath = 1]

\* Lines 991-994: the merged map is written.
mergeWrite(self) ==
    LET w == writeExtmap(self.files, [h \in 1..self.npix |-> h - 1],
                         self.distsMaster, self.ebvsMaster, self.sfacsMaster,
                         PyArray(self.maskMaster), PyDict(<<>>), self.hdr0,
                         self.pathJoined)
    IN  IF w.raised # "none"
        THEN [self EXCEPT !.stage = "raised", !.raised = w.raised]
        ELSE [self EXCEPT !.stage = "done", !.files = w.files,
                          !.wrote = w.wrote]

(***************************************************************************)
(* Specification SpecMerge: one call of mergeMaps                          *)
(*                                                                         *)
(* The input tiles are files as writeExtmap leaves them (five blocks, the  *)
(* mask block possibly empty) or as older writers left them (four).        *)
(***************************************************************************)
TileRanges == {<<0, 6>>, <<6, 12>>, <<0, 12>>, <<4, 8>>}
MaskKinds == {"absent", "empty", "clear", "flagged"}

tileHeader(r, full) ==
    IF full
    THEN [NSIDE |-> 1, NESTED |-> FALSE, NBINS |-> NBins,
          HPMIN |-> r[1], HPMAX |-> r[2]]
    ELSE [NSIDE |-> 1, NESTED |-> FALSE, HPMIN |-> r[1], HPMAX |-> r[2]]

tileMask(kind, n) ==
    IF kind \in {"absent", "empty"} THEN <<>>
    ELSE [k \in 1..n |-> [j \in 1..NBins |->
             IF kind = "flagged" /\ j = NBins THEN 1 ELSE 0]]

Tile(name, r, kind, full) ==
    LET n == r[2] - r[1]
    IN  [path |-> <<"", name, 1, r[1], r[2]>>,
         hdul |-> [hdr   |-> tileHeader(r, full),
                   hpids |-> [k \in 1..n |-> r[1] + k - 1],
                   dists |-> [k \in 1..n |-> [j \in 1..NBins |-> FInt(10 * j + r[1])]],
                   ebvs  |-> [k \in 1..n |-> [j \in 1..NBins |->
                                 Frac(1 + ((r[1] + k + j) % 3), 2)]],
                   sfacs |-> [k \in 1..n |-> Frac(r[2], 4)],
                   masks |-> tileMask(kind, n),
                   nHdu  |-> IF kind = "absent" THEN 4 ELSE 5]]

\* A header without the card K
dropCard(hdr, K) == [k \in (DOMAIN hdr) \ {K} |-> hdr[k]]

Tiles ==
    {Tile("ebv3d", r, kind, TRUE) : r \in TileRanges, kind \in MaskKinds}
      \cup {Tile("ebv3d", <<0, 12>>, "absent", FALSE)}
      \cup {[Tile("ebv3d", <<6, 12>>, "empty", TRUE)
                 EXCEPT !.hdul.hdr = dropCard(@, K)] : K \in {"NSIDE", "NESTED"}}
      \cup {Tile("ebv3d", <<-1, 3>>, "empty", TRUE)}
      \cup {[Tile("ebv3d", <<4, 8>>, "clear", TRUE)
                 EXCEPT !.path = <<"", "merged.fits", 0, 0, 0>>],
            [Tile("ebv3d", <<0, 6>>, "empty", TRUE)
                 EXCEPT !.path = <<"", "tmp_merged.fits", 0, 0, 0>>]}

TileLists ==
    {l \in UNION {[1..n -> Tiles] : n \in 0..MaxTiles} :
        \A i, j \in 1..Len(l) : i # j => l[i].path # l[j].path}

MergeInit ==
    /\ cube = CHOOSE c \in Cubes : c.shape[1] = 5
    /\ \E lPaths \in TileLists, pathJoined \in {"", "merged.fits"} :
          mrg = MergeCalled(lPaths, pathJoined)
    /\ los = Idle /\ hyb = Idle /\ loop = Idle
    /\ ebv3d = Idle
    /\ ray = Idle

MergeSetup ==
    /\ mrg.stage = "called"
    /\ mrg' = mergeSetup(mrg)
    /\ UNCHANGED <<cube, los, hyb, loop, ebv3d, ray>>

MergeTile ==
    /\ mrg.stage = "merging"
    /\ mrg.iPath <= Len(mrg.lPaths)
    /\ mrg' = slotTile(mrg, mrg.lPaths[mrg.iPath].hdul)
    /\ UNCHANGED <<cube, los, hyb, loop, ebv3d, ray>>

MergeWrite ==
    /\ mrg.stage = "merging"
    /\ mrg.iPath > Len(mrg.lPaths)
    /\ mrg' = mergeWrite(mrg)
    /\ UNCHANGED <<cube, los, hyb, loop, ebv3d, ray>>

MergeNext == MergeSetup \/ MergeTile \/ MergeWrite

SpecMerge == MergeInit /\ [][MergeNext]_vars

(***************************************************************************)
(* readExtinction.py: class ebv3d                                          *)
(*                                                                         *)
(* An array is [shape, data]: shape <<n>> with data a sequence of n        *)
(* values, or shape <<n, m>> with data a sequence of n rows of m values.   *)
(***************************************************************************)
Empty1D == [shape |-> <<0>>, data |-> <<>>]        \* np.array([])
nd1(s) == [shape |-> <<Len(s)>>, data |-> s]
nd2(rows, m) == [shape |-> <<Len(rows), m>>, data |-> rows]
ndim(a) == Len(a.shape)
ndsize(a) == IF ndim(a) = 1 THEN a.shape[1] ELSE a.shape[1] * a.shape[2]

\* The array an image block holds for a stored sequence of rows
imageData(rows) ==
    IF Len(rows) = 0 THEN Empty1D ELSE nd2(rows, Len(rows[1]))

\* (mutant) the extinction block is appended before the distance block
hduList_Swapped(hdul) ==
    SubSeq(<<[header |-> hdul.hdr, data |-> nd1(hdul.hpids)],
             [header |-> EmptyHeader, data |-> imageData(hdul.ebvs)],
             [header |-> EmptyHeader, data |-> imageData(hdul.dists)],
             [header |-> EmptyHeader, data |-> nd1(hdul.sfacs)],
             [header |-> EmptyHeader, data |-> imageData(hdul.masks)]>>,
           1, hdul.nHdu)

\* The blocks of a file in the order writeExtmap appends them (lines
\* 895-906 of compareExtinctions.py), as fits.open returns them.
hduList(hdul) ==
    SubSeq(<<[header |-> hdul.hdr, data |-> nd1(hdul.hpids)],
             [header |-> EmptyHeader, data |-> imageData(hdul.dists)],
             [header |-> EmptyHeader, data |-> imageData(hdul.ebvs)],
             [header |-> EmptyHeader, data |-> nd1(hdul.sfacs)],
             [header |-> EmptyHeader, data |-> imageData(hdul.masks)]>>,
           1, hdul.nHdu)

DefaultNside == 64          \* self.nside = 64

\* self.R_x
R_x == [u |-> Frac(480, 100), g |-> Frac(367, 100), r |-> Frac(270, 100),
        i |-> Frac(206, 100), z |-> Frac(159, 100), y |-> Frac(131, 100)]

\* ebv3d.__init__
ebv3dInit(pathMap, Verbose) ==
    [pathMap |-> pathMap,
     hpids |-> Empty1D, dists |-> Empty1D, ebvs |-> Empty1D,
     sfacs |-> Empty1D, mask |-> Empty1D,
     hdr |-> EmptyHeader, nside |-> DefaultNside, nested |-> FALSE,
     dmods |-> Empty1D, Verbose |-> Verbose]

\* np.log10 on the distances the tiles hold (powers of ten, and 0)
log10(x) ==
    CASE x = FInt(0) -> <<-1, 0>>
      [] x = FInt(1) -> FInt(0)
      [] x = FInt(10) -> FInt(1)
      [] x = FInt(100) -> FInt(2)
      [] x = FInt(1000) -> FInt(3)
      [] x = FInt(10000) -> FInt(4)
      [] OTHER -> NaN

\* Element-wise f over an array of either rank
ndmap(f(_), a) ==
    IF ndim(a) = 1
    THEN [shape |-> a.shape, data |-> [k \in 1..Len(a.data) |-> f(a.data[k])]]
    ELSE [shape |-> a.shape,
          data |-> [k \in 1..Len(a.data) |->
                       [j \in 1..Len(a.data[k]) |-> f(a.data[k][j])]]]

\* ebv3d.calcDistmods: 5.0*np.log10(self.dists) - 5.
calcDistmods(dists) ==
    ndmap(LAMBDA d : FAdd(FMul(FInt(5), log10(d)), FInt(-5)), dists)

\* ebv3d.loadMap: the object afterwards, the exception raised if any, and
\* what was printed.
loadMap(self, files) ==
    IF ~(\E f \in files : f.path = self.pathMap)
    THEN [obj |-> self, raised |-> "none",
          report |-> IF self.Verbose THEN "loadMap WARN - cannot read path" ELSE ""]
    ELSE Value(hduList((CHOOSE f \in files : f.path = self.pathMap).hdul),
               LAMBDA hdul :
                  LET filled == [self EXCEPT
                                    !.hdr = hdul[1].header,
                                    !.hpids = hdul[1].data,
                                    !.dists = hdul[2].data,
                                    !.ebvs = hdul[3].data,
                                    !.sfacs = IF Len(hdul) > 3 THEN hdul[4].data
                                              ELSE self.sfacs,
                                    !.mask = IF Len(hdul) > 4 THEN hdul[5].data
                                             ELSE self.mask]
                      hdr == hdul[1].header
                  IN  IF "NSIDE" \notin DOMAIN hdr
                      THEN [obj |-> filled, raised |-> "KeyError", report |-> ""]
                      ELSE IF "NESTED" \notin DOMAIN hdr
                      THEN [obj |-> [filled EXCEPT !.nside = hdr.NSIDE],
                            raised |-> "KeyError", report |-> ""]
                      ELSE [obj |-> [filled EXCEPT
                                        !.nside = hdr.NSIDE,
                                        !.nested = hdr.NESTED,
                                        !.dmods = calcDistmods(filled.dists)],
                            raised |-> "none", report |-> ""])

\* (mutant) the last of the minima is taken
argmin_Last(row) ==
    CHOOSE i \in 1..Len(row) :
        /\ \A j \in 1..Len(row) : FLe(row[i], row[j])
        /\ \A j \in (i + 1)..Len(row) : FLt(row[i], row[j])

\* np.argmin along a row (1-based here): the first nan if there is one,
\* else the first minimum.
argmin(row) ==
    IF \E i \in 1..Len(row) : IsNaN(row[i])
    THEN CHOOSE i \in 1..Len(row) :
            IsNaN(row[i]) /\ \A j \in 1..(i - 1) : ~IsNaN(row[j])
    ELSE CHOOSE i \in 1..Len(row) :
            /\ \A j \in 1..Len(row) : FLe(row[i], row[j])
            /\ \A j \in 1..(i - 1) : FLt(row[i], row[j])

\* np.argmin(np.abs(a - target), axis=1) where target[k] belongs to row k:
\* the exception it raises, or the index per row.
argminAxis1(a, target) ==
    IF ndim(a) < 2
    THEN [raised |-> "AxisError", imin |-> <<>>]
    ELSE IF a.shape[2] = 0
    THEN \* attempt to get argmin of an empty sequence
         [raised |-> "ValueError", imin |-> <<>>]
    ELSE [raised |-> "none",
          imin |-> [k \in 1..a.shape[1] |->
                      argmin([j \in 1..a.shape[2] |->
                                 FAbs(FSub(a.data[k][j], target[k]))])]]

\* np.take_along_axis(a, iExpand, axis=-1).squeeze()
takeAlong(a, imin) == [k \in 1..Len(imin) |-> a.data[k][imin[k]]]

\* The returned value of a method that ran into an exception
Raised(e) == [raised |-> e, ret |-> <<>>]
Returned(v) == [raised |-> "none", ret |-> v]

\* ebv3d.getMapNearestDist
getMapNearestDist(self, distPc) ==
    Value(argminAxis1(self.dists, [k \in 1..self.dists.shape[1] |-> FInt(distPc)]),
          LAMBDA am :
             IF am.raised # "none" THEN Raised(am.raised)
             ELSE IF ndim(self.ebvs) < 2 \/ self.ebvs.shape # self.dists.shape
             THEN Raised("ValueError")
             ELSE Returned([ebvsClosest |-> takeAlong(self.ebvs, am.imin),
                            distsClosest |-> takeAlong(self.dists, am.imin)]))

NoCoord == -99               \* return 0., -99., -99.

\* hp.ang2pix(nside, ra, dec, lonlat=True) for the base resolution: the
\* pixel whose centre is nearest.
ang2pix(ra, dec) ==
    CHOOSE hpid \in 0..11 :
        \A other \in 0..11 :
            (pix2ang(hpid).ra - ra) * (pix2ang(hpid).ra - ra)
              + (pix2ang(hpid).dec - dec) * (pix2ang(hpid).dec - dec)
            <= (pix2ang(other).ra - ra) * (pix2ang(other).ra - ra)
              + (pix2ang(other).dec - dec) * (pix2ang(other).dec - dec)

\* ebv3d.getEBVatSightline with interp=False, on an object of nside 1
getEBVatSightline(self, l, b, ebvMap) ==
    IF ndsize(ebvMap) < 1
    THEN Returned(<<FInt(0), NoCoord, NoCoord>>)
    ELSE Value(ang2pix(gal2icrs(l, b).ra, gal2icrs(l, b).dec),
               LAMBDA hpid :
                  IF hpid >= ebvMap.shape[1] THEN Raised("IndexError")
                  ELSE Returned(<<ebvMap.data[hpid + 1],
                                  icrs2gal(pix2ang(hpid).ra, pix2ang(hpid).dec).l,
                                  icrs2gal(pix2ang(hpid).ra, pix2ang(hpid).dec).b>>))

\* ebv3d.getDeltaMag: self.dmods[np.newaxis,:] + Rx * self.ebvs, first plane
getDeltaMag(self, sFilt) ==
    LET Rx == IF sFilt \in DOMAIN R_x THEN R_x[sFilt] ELSE R_x["r"]
    IN  IF ndim(self.dmods) = 1 /\ ndim(self.ebvs) = 1
        THEN IF self.dmods.shape = self.ebvs.shape
                \/ self.dmods.shape[1] = 1 \/ self.ebvs.shape[1] = 1
             THEN Returned(nd1([k \in 1..Len(self.dmods.data) |->
                                   FAdd(self.dmods.data[k],
                                        FMul(Rx, self.ebvs.data[k]))]))
             ELSE Raised("ValueError")
        ELSE IF self.dmods.shape # self.ebvs.shape
        THEN Raised("ValueError")
        ELSE Returned([shape |-> self.dmods.shape,
                       data |-> [k \in 1..Len(self.dmods.data) |->
                                   [j \in 1..Len(self.dmods.data[k]) |->
                                       FAdd(self.dmods.data[k][j],
                                            FMul(Rx, self.ebvs.data[k][j]))]]])

\* ebv3d.getDistanceAtMag with a scalar deltamag
getDistanceAtMag(self, deltamag, sfilt) ==
    Value(getDeltaMag(self, sfilt),
          LAMBDA dm :
             IF dm.raised # "none" THEN dm
             ELSE Value(argminAxis1(
                            \* a 1-d mMinusM against the column dmagVec[:, None]
                            IF ndim(dm.ret) = 1
                            THEN [shape |-> <<self.ebvs.shape[1], dm.ret.shape[1]>>,
                                  data |-> [k \in 1..self.ebvs.shape[1] |-> dm.ret.data]]
                            ELSE dm.ret,
                            [k \in 1..self.ebvs.shape[1] |-> FInt(deltamag)]),
                        LAMBDA am :
                           IF am.raised # "none" THEN Raised(am.raised)
                           ELSE Returned([distsClosest |-> takeAlong(self.dists, am.imin),
                                          mMinusM |-> dm.ret])))

(***************************************************************************)
(* Specification SpecMap: a tile is written with writeExtmap, an ebv3d     *)
(* object loads it (or finds nothing to load) and is queried.              *)
(***************************************************************************)
MapPath == <<"", "merged.fits", 0, 0, 0>>
MapRanges == {<<0, 0>>, <<0, 1>>, <<0, 12>>, <<3, 6>>}
MapVariants == 0..2

RECURSIVE Pow10(_)
Pow10(n) == IF n = 0 THEN 1 ELSE 10 * Pow10(n - 1)

\* The arguments of one writeExtmap call: rows for the pixel ids of range
\* r; in variant 2 every second row is still as loopSightlines initialises
\* it (zero distances and extinctions, scale factor 1).
MapTile(r, v, kind, full) ==
    LET n == r[2] - r[1]
        blank(k) == v = 2 /\ k % 2 = 0
    IN  [hpids |-> [k \in 1..n |-> r[1] + k - 1],
         dists |-> [k \in 1..n |-> [j \in 1..NBins |->
                       IF blank(k) THEN FInt(0) ELSE FInt(Pow10(j - 1 + (v % 2)))]],
         ebvs  |-> [k \in 1..n |-> [j \in 1..NBins |->
                       IF blank(k) THEN FInt(0) ELSE Frac(j + ((k + v) % 3), 2)]],
         sfacs |-> [k \in 1..n |-> IF blank(k) THEN FInt(1) ELSE Frac(v + 1, 2)],
         masks |-> IF n = 0 THEN <<>> ELSE tileMask(kind, n),
         dMeta |-> IF full
                   THEN [nside |-> 1, nested |-> FALSE, hpmin |-> r[1],
                         hpmax |-> r[2], nbins |-> NBins]
                   ELSE <<>>]

MapTiles ==
    {MapTile(r, v, kind, full) :
        r \in MapRanges, v \in MapVariants, kind \in {"empty", "flagged"},
        full \in BOOLEAN}

NoTile == MapTile(<<0, 0>>, 0, "empty", FALSE)

MapInit ==
    /\ cube = CHOOSE c \in Cubes : c.shape[1] = 5
    /\ ebv3d = [stage |-> "constructed", obj |-> ebv3dInit(MapPath, TRUE),
                files |-> {}, tile |-> NoTile, wrote |-> FALSE,
                loadRaised |-> "none", report |-> "",
                query |-> "none", args |-> <<>>, out |-> Returned(<<>>)]
    /\ los = Idle /\ hyb = Idle /\ loop = Idle /\ mrg = Idle
    /\ ray = Idle

\* writeExtmap(hpids, dists, ebvs, sfacs, masks, dMeta=..., fitsPath=...)
WriteTile ==
    /\ ebv3d.stage = "constructed"
    /\ \E tile \in MapTiles :
          \E w \in {writeExtmap(ebv3d.files, tile.hpids, tile.dists, tile.ebvs,
                                tile.sfacs, PyArray(tile.masks),
                                PyDict(tile.dMeta), EmptyHeader, MapPath)} :
             ebv3d' = [ebv3d EXCEPT !.stage = "written", !.tile = tile,
                                    !.files = w.files, !.wrote = w.wrote]
    /\ UNCHANGED <<cube, los, hyb, loop, mrg, ray>>

\* ebv3d.loadMap()
LoadMap ==
    /\ ebv3d.stage \in {"constructed", "written"}
    /\ \E r \in {loadMap(ebv3d.obj, ebv3d.files)} :
          ebv3d' = [ebv3d EXCEPT !.stage = "loaded", !.obj = r.obj,
                                 !.loadRaised = r.raised, !.report = r.report]
    /\ UNCHANGED <<cube, los, hyb, loop, mrg, ray>>

\* ebv3d.getMapNearestDist(distPc)
GetMapNearestDist ==
    /\ ebv3d.stage = "loaded"
    /\ \E distPc \in {5, 55, 100} :
          \E r \in {getMapNearestDist(ebv3d.obj, distPc)} :
             ebv3d' = [ebv3d EXCEPT !.stage = "queried",
                                    !.query = "getMapNearestDist",
                                    !.args = <<distPc>>, !.out = r]
    /\ UNCHANGED <<cube, los, hyb, loop, mrg, ray>>

\* ebv3d.getEBVatSightline(l, b, ebvMap): ebvMap is left at its default or
\* is the reddening map getMapNearestDist gives.
GetEBVatSightline ==
    /\ ebv3d.stage = "loaded"
    /\ \E l \in {0, 16200}, b \in {0, 2509}, given \in BOOLEAN :
          \E near \in {getMapNearestDist(ebv3d.obj, 100)} :
             /\ given => (near.raised = "none" /\ ebv3d.obj.nside = 1)
             /\ \E r \in {getEBVatSightline(ebv3d.obj, l, b,
                              IF given THEN nd1(near.ret.ebvsClosest)
                              ELSE Empty1D)} :
                   ebv3d' = [ebv3d EXCEPT !.stage = "queried",
                                          !.query = "getEBVatSightline",
                                          !.args = <<l, b, given>>,
                                          !.out = r]
    /\ UNCHANGED <<cube, los, hyb, loop, mrg, ray>>

\* ebv3d.getDeltaMag(sFilt)
GetDeltaMag ==
    /\ ebv3d.stage = "loaded"
    /\ \E sFilt \in {"r", "g", "x"} :
          \E r \in {getDeltaMag(ebv3d.obj, sFilt)} :
             ebv3d' = [ebv3d EXCEPT !.stage = "queried",
                                    !.query = "getDeltaMag",
                                    !.args = <<sFilt>>, !.out = r]
    /\ UNCHANGED <<cube, los, hyb, loop, mrg, ray>>

\* ebv3d.getDistanceAtMag(deltamag, sfilt)
GetDistanceAtMag ==
    /\ ebv3d.stage = "loaded"
    /\ \E deltamag \in {2, 15} :
          \E r \in {getDistanceAtMag(ebv3d.obj, deltamag, "r")} :
             ebv3d' = [ebv3d EXCEPT !.stage = "queried",
                                    !.query = "getDistanceAtMag",
                                    !.args = <<deltamag, "r">>, !.out = r]
    /\ UNCHANGED <<cube, los, hyb, loop, mrg, ray>>

MapNext ==
    \/ WriteTile \/ LoadMap \/ GetMapNearestDist \/ GetEBVatSightline
    \/ GetDeltaMag \/ GetDistanceAtMag

SpecMap == MapInit /\ [][MapNext]_vars

(***************************************************************************)
(* Specification SpecRay: one sight line through the cube, handed to       *)
(* find_max_distance or to get_ebv_lallement                               *)
(***************************************************************************)
\* The distance arrays supplied; the empty one makes get_ebv_lallement
\* generate its own from dist, dmin and dstep.
RayGrids == {<<>>, <<1, 3, 5, 4>>, <<2, 3, 20>>, <<20, 30>>, <<1, 2, 3, 5>>, <<3, 3, 6>>}

RayCalled(dens, dir, dist, dstep, distances) ==
    [stage |-> "called", dens |-> dens, dir |-> dir, dist |-> dist,
     dmin |-> 1, dstep |-> dstep, distances |-> distances,
     found |-> [raised |-> "none", distMax |-> 0],
     out |-> [raised |-> "none", d_interp |-> <<>>, distMax |-> 0,
              ebv_interp |-> <<>>, d_step |-> <<>>, ebv |-> <<>>]]

RayInit ==
    /\ cube \in Cubes
    /\ \E dens \in Densities, dir \in Directions, dist \in {0, 3, 9},
          dstep \in {2, 3}, distances \in RayGrids :
          ray = RayCalled(dens, dir, dist, dstep, distances)
    /\ los = Idle /\ hyb = Idle /\ loop = Idle /\ mrg = Idle /\ ebv3d = Idle

\* find_max_distance(l, b, dists)
FindMaxDistance ==
    /\ ray.stage = "called"
    /\ \E r \in {find_max_distance(cube, ray.dir, ray.distances)} :
          ray' = [ray EXCEPT !.stage = "found", !.found = r]
    /\ UNCHANGED <<cube, los, hyb, loop, mrg, ebv3d>>

\* get_ebv_lallement(l, b, dist, dmin, dstep, distances)
GetEbvLallement ==
    /\ ray.stage = "called"
    /\ \E r \in {get_ebv_lallement(cube, ray.dens, ray.dir, ray.dist, ray.dmin,
                                   ray.dstep, ray.distances)} :
          ray' = [ray EXCEPT !.stage = "integrated", !.out = r]
    /\ UNCHANGED <<cube, los, hyb, loop, mrg, ebv3d>>

RayNext == FindMaxDistance \/ GetEbvLallement

SpecRay == RayInit /\ [][RayNext]_vars

(***************************************************************************)
(* Specification SpecDist: one lineofsight object, generateDistances       *)
(***************************************************************************)
DistInit ==
    /\ cube \in Cubes
    /\ \E dir \in Directions, dmax \in {9, 40}, dstep \in {2, 3},
          coarse \in {12, 30, 60}, nbins \in 1..MaxDistBins :
          \E o \in OracleKinds :
             los = [lineofsight(dir, dmax, 1, dstep, <<>>, coarse, nbins)
                       EXCEPT !.objBovy = o]
    /\ hyb = Idle /\ loop = Idle /\ mrg = Idle
    /\ ebv3d = Idle
    /\ ray = Idle

GenerateDistances ==
    /\ los.stage = "constructed"
    /\ los' = generateDistances(cube, los)
    /\ UNCHANGED <<cube, hyb, loop, mrg, ebv3d, ray>>

\* getBovyEBV on a sight line that has its distances
GetBovyEBV ==
    /\ los.stage = "generated"
    /\ los.raised = "none"
    /\ los' = getBovyEBV(los)
    /\ UNCHANGED <<cube, hyb, loop, mrg, ebv3d, ray>>

DistNext == GenerateDistances \/ GetBovyEBV

SpecDist == DistInit /\ [][DistNext]_vars

(***************************************************************************)
(* Specification SpecHybrid: one call of hybridSightline                   *)
(***************************************************************************)
\* The distance grids and median curves tried.  The medians are what the
\* cube and the external model give for the sampled sight lines.
Grids == {<<10, 20, 30>>, <<10, 16, 30>>}
Curves == [1..3 -> 0..MaxEbv]

HybCalled ==
    [stage |-> "called", nKept |-> 0, cen |-> None, samples |-> {},
     distsMed |-> <<>>, ebvL19Med |-> <<>>, ebvBovyMed |-> <<>>,
     distLimPc |-> NaN, distFrac |-> NaN, setLimDynamically |-> FALSE,
     distCompare |-> NaN, iMaxL19 |-> 0, rvFactor |-> NaN,
     ebvL19scaled |-> <<>>, ebvHybrid |-> <<>>,
     doPlots |-> FALSE, returnValues |-> FALSE, ret |-> None]

HybInit ==
    /\ cube = CHOOSE c \in Cubes : c.shape[1] = 5
    /\ hyb = HybCalled
    /\ los = Idle /\ loop = Idle /\ mrg = Idle
    /\ ebv3d = Idle
    /\ ray = Idle

\* Lines 438-493: build the sample grid; return None when nothing is kept.
SelectSamples ==
    /\ hyb.stage = "called"
    /\ \E hpid \in {-1, 0, 5, 6, 11}, lCen \in {0, 16200}, bCen \in {0, 5390},
          nl \in {0, 1, 3}, nb \in {1, 3}, pixFillFac \in {0, 1}, nside \in {1, 64} :
          LET cen  == fieldCentre(lCen, bCen, hpid)
              kept == keptSamples(cen, nside, pixFillFac, nl, nb, CollisionArcmin)
          IN  IF Cardinality(kept) < 1
              THEN hyb' = [hyb EXCEPT !.stage = "returned", !.ret = None]
              ELSE hyb' = [hyb EXCEPT !.stage = "sampled",
                                      !.nKept = Cardinality(kept),
                                      !.cen = cen, !.samples = kept]
    /\ UNCHANGED <<cube, los, loop, mrg, ebv3d, ray>>

\* Lines 508-573: query both models on every sample and take the medians.
SampleSightlines ==
    /\ hyb.stage = "sampled"
    /\ \E grid \in Grids, a \in Curves, b \in Curves :
       \E lim \in {grid[2], grid[3], DistLimInit} :
          hyb' = [hyb EXCEPT !.stage = "medians", !.nKept = 0,
                             !.cen = None, !.samples = {},
                             !.distsMed = FSeq(grid),
                             !.ebvL19Med = FSeq(a),
                             !.ebvBovyMed = FSeq(b),
                             !.distLimPc = FInt(lim)]
    /\ UNCHANGED <<cube, los, loop, mrg, ebv3d, ray>>

\* Lines 579-600: the transition distance.
SetTransition ==
    /\ hyb.stage = "medians"
    /\ \E distFrac \in {<<1, 1>>, <<1, 2>>}, dyn \in BOOLEAN :
          hyb' = [hyb EXCEPT !.stage = "transition",
                             !.distFrac = distFrac,
                             !.setLimDynamically = dyn,
                             !.distCompare =
                                 distCompareOf(hyb.distsMed, hyb.ebvL19Med,
                                               hyb.ebvBovyMed, hyb.distLimPc,
                                               distFrac, dyn, DiffRatioMin,
                                               FInt(MinDistL19))]
    /\ UNCHANGED <<cube, los, loop, mrg, ebv3d, ray>>

\* Lines 603-634: the scale factor and the merged curve.
ScaleAndMerge ==
    /\ hyb.stage = "transition"
    /\ LET i  == iMaxL19Of(hyb.distsMed, hyb.distCompare)
           rv == rvFactorOf(hyb.ebvL19Med, hyb.ebvBovyMed, i, FInt(MinEBV))
           sc == ebvL19scaledOf(hyb.ebvL19Med, rv)
       IN  hyb' = [hyb EXCEPT !.stage = "merged",
                              !.iMaxL19 = i,
                              !.rvFactor = rv,
                              !.ebvL19scaled = sc,
                              !.ebvHybrid =
                                  ebvHybridOf(hyb.distsMed, hyb.ebvBovyMed, sc,
                                              hyb.distCompare, FInt(MinEBV))]
    /\ UNCHANGED <<cube, los, loop, mrg, ebv3d, ray>>

\* Lines 645-650 and 747-748: return.
HybridReturn ==
    /\ hyb.stage = "merged"
    /\ \E doPlots \in BOOLEAN, returnValues \in BOOLEAN :
          hyb' = [hyb EXCEPT !.stage = "returned",
                             !.doPlots = doPlots,
                             !.returnValues = returnValues,
                             !.ret = hybridReturn(doPlots, returnValues,
                                                  hyb.ebvHybrid, hyb.distsMed,
                                                  hyb.rvFactor)]
    /\ UNCHANGED <<cube, los, loop, mrg, ebv3d, ray>>

HybNext ==
    \/ SelectSamples
    \/ SampleSightlines
    \/ SetTransition
    \/ ScaleAndMerge
    \/ HybridReturn

SpecHybrid == HybInit /\ [][HybNext]_vars

(***************************************************************************)
(* Claims about generateDistances (checked under SpecDist)                 *)
(***************************************************************************)
\* The call found a validity edge: find_max_distance did not fail.
HasValidityEdge == los.stage = "generated" /\ los.raised # "ValueError"

\* C1: for every input with a validity edge, generateDistances produces a
\* grid of exactly nDistBins distances, also when the fine array alone has
\* nDistBins or more elements.
C1_LengthIsNDistBins ==
    HasValidityEdge => (los.raised = "none" /\ Len(los.distsPc) = los.nDistBins)

\* C21: a negative remaining count gives a warning and exactly 10 coarse
\* bins, every non-negative remaining count gives exactly that many coarse
\* bins, and the call completes in both cases.
C21_CoarseBinsLaidOut ==
    (los.stage = "generated" /\ los.nClose > 0) =>
       /\ los.raised = "none"
       /\ IF los.nDistBins - los.nClose < 0
          THEN los.warned /\ Len(los.distsPc) = los.nClose + CoarseFallback
          ELSE ~los.warned /\ Len(los.distsPc) = los.nDistBins

\* C2 as stated: every grid generateDistances produces is strictly
\* increasing, whatever the fine ceiling and distMaxCoarsePc are.
C2_IncreasingForEveryCoarse ==
    (los.stage = "generated" /\ los.raised = "none")
        => FStrictlyIncreasing(los.distsPc)

\* C2 (amended): whenever distMaxCoarsePc is greater than the last fine
\* value, the grid generateDistances produces is strictly increasing over
\* its whole length and its first coarse value is greater than its last
\* fine value.
C2_IncreasingWhenCoarseBeyondFine ==
    (/\ los.stage = "generated"
     /\ los.raised = "none"
     /\ FLt(los.distsPc[los.nClose], FInt(los.distMaxCoarsePc)))
        => /\ FStrictlyIncreasing(los.distsPc)
           /\ FLt(los.distsPc[los.nClose], los.distsPc[los.nClose + 1])

\* A grid with a fine and a coarse part was produced, the coarse ceiling
\* lying beyond the fine part and between two integer distances.
C2_Witness ==
    /\ los.stage = "generated"
    /\ los.raised = "none"
    /\ FLt(los.distsPc[los.nClose], FInt(los.distMaxCoarsePc))
    /\ Len(los.distsPc) = los.nClose + 3
    /\ los.distStepCoarsePc[2] # 1

(***************************************************************************)
(* Claims about hybridSightline (checked under SpecHybrid)                 *)
(***************************************************************************)
HybTransitionSet == hyb.stage \in {"transition", "merged", "returned"}
                        /\ Len(hyb.distsMed) > 0
HybMerged == hyb.stage \in {"merged", "returned"} /\ Len(hyb.ebvHybrid) > 0
BinsOf(h) == 1..Len(h.distsMed)

\* C3 as stated: at the bin nearest the transition distance the hybrid
\* value is the rescaled model-A median ebvL19Med[bin]/rvFactor.
C3_TransitionBinIsRescaledA ==
    HybMerged =>
        hyb.ebvHybrid[hyb.iMaxL19]
            = FDiv(hyb.ebvL19Med[hyb.iMaxL19], hyb.rvFactor)

\* C3 (amended): at the bin nearest the transition distance the hybrid
\* value is the rescaled model-A median when that bin lies strictly before
\* the transition distance or the model-B median there is below minEBV,
\* and the raw model-B median otherwise.
C3_TransitionBinByCase ==
    HybMerged =>
        LET i == hyb.iMaxL19
        IN  IF \/ FLt(hyb.distsMed[i], hyb.distCompare)
               \/ FLt(hyb.ebvBovyMed[i], FInt(MinEBV))
            THEN hyb.ebvHybrid[i] = FDiv(hyb.ebvL19Med[i], hyb.rvFactor)
            ELSE hyb.ebvHybrid[i] = hyb.ebvBovyMed[i]

\* The transition bin lies exactly at the transition distance, model B is
\* above the floor there and the scale factor is not 1.
C3_Witness ==
    /\ HybMerged
    /\ hyb.distsMed[hyb.iMaxL19] = hyb.distCompare
    /\ FGt(hyb.ebvBovyMed[hyb.iMaxL19], FInt(MinEBV))
    /\ hyb.rvFactor # FInt(1)
    /\ IsFinite(hyb.ebvL19scaled[hyb.iMaxL19])

\* C4: if the model-B median at the transition bin is below minEBV, the
\* scale factor is exactly 1 and the bins before the transition distance
\* carry the model-A median unrescaled.
C4_FloorGivesUnitScale ==
    (HybMerged /\ FLt(hyb.ebvBovyMed[hyb.iMaxL19], FInt(MinEBV)))
        => /\ hyb.rvFactor = FInt(1)
           /\ \A j \in BinsOf(hyb) :
                 FLt(hyb.distsMed[j], hyb.distCompare)
                     => hyb.ebvHybrid[j] = hyb.ebvL19Med[j]

\* Model B is positive but below the floor at the transition bin, model A
\* differs from it, and some bin lies before the transition distance.
C4_Witness ==
    /\ HybMerged
    /\ FLt(hyb.ebvBovyMed[hyb.iMaxL19], FInt(MinEBV))
    /\ FGt(hyb.ebvBovyMed[hyb.iMaxL19], FInt(0))
    /\ FGt(hyb.ebvL19Med[hyb.iMaxL19], hyb.ebvBovyMed[hyb.iMaxL19])
    /\ \E j \in BinsOf(hyb) : FLt(hyb.distsMed[j], hyb.distCompare)

\* C29: whenever both median curves are non-negative, the scale factor is
\* strictly positive and every value of the hybrid curve is a well-defined
\* non-negative number, also when the model-A median at the transition bin
\* is 0.
C29_ScaleAndCurveWellDefined ==
    (/\ HybMerged
     /\ \A j \in BinsOf(hyb) : /\ FLe(FInt(0), hyb.ebvL19Med[j])
                                /\ FLe(FInt(0), hyb.ebvBovyMed[j]))
        => /\ FGt(hyb.rvFactor, FInt(0))
           /\ \A j \in BinsOf(hyb) :
                 /\ IsFinite(hyb.ebvHybrid[j])
                 /\ FLe(FInt(0), hyb.ebvHybrid[j])

NonDecreasing(curve) ==
    \A j \in 1..(Len(curve) - 1) : FLe(curve[j], curve[j + 1])

\* C30: whenever both median curves are non-decreasing in distance, the
\* hybrid curve is non-decreasing in distance across the whole grid, also
\* across the transition bin and across bins replaced because they fell
\* below the minimum-extinction floor.
C30_HybridNonDecreasing ==
    (HybMerged /\ NonDecreasing(hyb.ebvL19Med) /\ NonDecreasing(hyb.ebvBovyMed))
        => NonDecreasing(hyb.ebvHybrid)

\* C5: whenever the model-B median at the transition bin exceeds minEBV,
\* the scale factor hybridSightline returns is
\* ebvL19Med[bin] / ebvBovyMed[bin], with or without plotting.
C5_ReturnedScaleIsRatio ==
    (/\ hyb.stage = "returned"
     /\ ~hyb.ret.isNone
     /\ FGt(hyb.ebvBovyMed[hyb.iMaxL19], FInt(MinEBV)))
        => hyb.ret.rvFactor
               = FDiv(hyb.ebvL19Med[hyb.iMaxL19], hyb.ebvBovyMed[hyb.iMaxL19])

\* C6 as stated: the hybrid value is the rescaled model-A median at every
\* bin at or before the transition distance, and the model-B median at
\* every later bin whose model-B value is not below minEBV.
C6_AtOrBeforeIsRescaledA ==
    HybMerged =>
        \A j \in BinsOf(hyb) :
            /\ FLe(hyb.distsMed[j], hyb.distCompare)
                  => hyb.ebvHybrid[j] = FDiv(hyb.ebvL19Med[j], hyb.rvFactor)
            /\ (FGt(hyb.distsMed[j], hyb.distCompare)
                   /\ ~FLt(hyb.ebvBovyMed[j], FInt(MinEBV)))
                  => hyb.ebvHybrid[j] = hyb.ebvBovyMed[j]

\* C6 (amended): the hybrid value is the rescaled model-A median at every
\* bin strictly before the transition distance, and the model-B median at
\* every bin at or after it whose model-B value is not below minEBV.
C6_StrictlyBeforeIsRescaledA ==
    HybMerged =>
        \A j \in BinsOf(hyb) :
            /\ FLt(hyb.distsMed[j], hyb.distCompare)
                  => hyb.ebvHybrid[j] = FDiv(hyb.ebvL19Med[j], hyb.rvFactor)
            /\ (FLe(hyb.distCompare, hyb.distsMed[j])
                   /\ ~FLt(hyb.ebvBovyMed[j], FInt(MinEBV)))
                  => hyb.ebvHybrid[j] = hyb.ebvBovyMed[j]

\* A bin lies exactly at the transition distance with model B at the
\* floor and model A different, and another bin lies before it.
C6_Witness ==
    /\ HybMerged
    /\ \E j \in BinsOf(hyb) :
          /\ hyb.distsMed[j] = hyb.distCompare
          /\ hyb.ebvBovyMed[j] = FInt(MinEBV)
          /\ hyb.ebvL19Med[j] # hyb.ebvBovyMed[j]
    /\ \E j \in BinsOf(hyb) :
          /\ FLt(hyb.distsMed[j], hyb.distCompare)
          /\ hyb.ebvHybrid[j] # hyb.ebvBovyMed[j]

\* The bins where both medians are positive and ebvBovyMed/ebvL19Med
\* differs from 1 by less than DiffRatioMin.
CloseBins(h) ==
    {i \in BinsOf(h) :
        /\ h.ebvL19Med[i][1] > 0
        /\ h.ebvBovyMed[i][1] > 0
        /\ DiffRatioMin[2] * Abs(h.ebvBovyMed[i][1] - h.ebvL19Med[i][1])
               < DiffRatioMin[1] * h.ebvL19Med[i][1]}

FarthestOf(h, bins) ==
    CHOOSE m \in {h.distsMed[i] : i \in bins} :
        \A i \in bins : FLe(h.distsMed[i], m)

TransitionFrom(h, bins) ==
    IF h.setLimDynamically /\ bins # {}
          /\ FGt(FarthestOf(h, bins), FInt(MinDistL19))
    THEN FarthestOf(h, bins)
    ELSE FMul(h.distLimPc, h.distFrac)

NoSamplesReport == "WATCHOUT - no samples kept"

ReportedNoSamples(self) ==
    \E i \in 1..Len(self.log) : self.log[i] = NoSamplesReport

\* C8: when hybridSightline keeps zero offset samples for a pixel of the
\* batch, loopSightlines reports that pixel and skips it without aborting:
\* the step that logs the report leaves the loop running and moves on to
\* the next pixel of the range.
C8_NoSamplesPixelIsSkipped ==
    [][(ReportedNoSamples(loop') /\ ~ReportedNoSamples(loop))
          => (loop'.stage = "looping" /\ loop'.iHP = loop.iHP + 1)]_vars


\* The tile file at the batch's output path holds the arrays of the batch
TileOnDisk ==
    \E f \in loop.files :
       /\ f.path = loop.fitsPath
       /\ f.hdul.hpids = loop.hpids
       /\ f.hdul.dists = loop.dists
       /\ f.hdul.ebvs = loop.ebvs
       /\ f.hdul.sfacs = loop.sfacs

\* All pixels of a non-empty range have been processed
LastPixelProcessed ==
    /\ loop.stage \in {"done", "raised"}
    /\ Len(loop.hpids) > 0
    /\ loop.iHP = Len(loop.hpids)

\* C22: the tile is written after each pixel whose index is a positive
\* multiple of reportInterval, and once the last pixel has been processed
\* a final write containing all rows always occurs.
C22_PeriodicAndFinalWrite ==
    /\ loop.stage = "looping" =>
          loop.nWrites = Cardinality({i \in 1..(loop.iHP - 1) :
                                         i % loop.args.reportInterval = 0})
    /\ LastPixelProcessed => (loop.stage = "done" /\ TileOnDisk)

\* C25: a batch writes only to its own output path, and with generated
\* paths batches whose normalised (nside, imin, imax) differ write to
\* different files: every step of a batch, also of one that fails, leaves
\* each file at another path as it was and adds no file but its own.
C25_OtherTilesUntouched ==
    [][loop'.stage # "called" =>
          /\ \A f \in loop.files :
                f.path # loop'.fitsPath => f \in loop'.files
          /\ \A f \in loop'.files :
                f \in loop.files \/ f.path = loop'.fitsPath]_vars

\* A batch with a generated path has written its tile beside the tiles of
\* other batches and has then failed.
C25_Witness ==
    /\ loop.stage = "raised" /\ loop.nWrites > 0
    /\ loop.fitsPath[2] = "ebv3d"
    /\ \E f \in loop.files : f.path = loop.fitsPath /\ f \notin OtherFiles
    /\ {f \in OtherFiles : f.path # loop.fitsPath} \subseteq loop.files
    /\ \E f \in OtherFiles : f.path # loop.fitsPath /\ f.path[4] = loop.imin

\* C27: after loopSightlines has normalised its range arguments,
\* 0 <= imin <= imax <= npix for every input, so every pixel id of the tile
\* lies in [0, npix) and the number of sight lines is non-negative.
C27_RangeNormalised ==
    loop.stage # "called" =>
       /\ 0 <= loop.imin /\ loop.imin <= loop.imax /\ loop.imax <= loop.npix
       /\ loop.nSightlines >= 0
       /\ \A k \in 1..Len(loop.hpids) :
             0 <= loop.hpids[k] /\ loop.hpids[k] < loop.npix

\* A row of n zeros
ZeroRow(n) == [j \in 1..n |-> FInt(0)]

\* What hybridSightline returns for the pixel of row k of the batch
ComputedFor(k) ==
    hybridSightlineCall(loop.args.sky, loop.hpids[k], loop.args.nside,
                        loop.args.nbins, loop.args.nl, loop.args.nb,
                        loop.args.fracPix).ret

\* The tile file as the step leaves it
TileWritten == (CHOOSE f \in loop'.files : f.path = loop'.fitsPath).hdul

\* C28: at every write issued by loopSightlines the tile has one row per
\* pixel id of the whole range; at the write after pixel index i, rows 0..i
\* hold the computed curves and every later row still holds its initial
\* value (all-zero distances and extinctions, scale factor 1).
C28_WrittenRows ==
    [][loop'.nWrites > loop.nWrites =>
          /\ TileWritten.hpids = loop.hpids
          /\ Len(TileWritten.hpids) = loop.imax - loop.imin
          /\ Len(TileWritten.dists) = Len(loop.hpids)
          /\ Len(TileWritten.ebvs) = Len(loop.hpids)
          /\ Len(TileWritten.sfacs) = Len(loop.hpids)
          /\ \A k \in 1..(loop.iHP + 1) :
                /\ TileWritten.dists[k] = ComputedFor(k).distsMed
                /\ TileWritten.ebvs[k] = ComputedFor(k).ebvHybrid
                /\ TileWritten.sfacs[k] = ComputedFor(k).rvFactor
          /\ \A k \in (loop.iHP + 2)..Len(loop.hpids) :
                /\ TileWritten.dists[k] = ZeroRow(loop.args.nbins)
                /\ TileWritten.ebvs[k] = ZeroRow(loop.args.nbins)
                /\ TileWritten.sfacs[k] = FInt(1)]_vars

\* The tile has been written after the third pixel of a longer range:
\* three computed rows, the rest as initialised.
C28_Witness ==
    /\ loop.stage = "looping" /\ loop.args.reportInterval = 2 /\ loop.iHP = 3
    /\ loop.nWrites = 1 /\ Len(loop.hpids) > 4
    /\ \E f \in loop.files :
          /\ f.path = loop.fitsPath
          /\ f.hdul.hpids = loop.hpids
          /\ f.hdul.ebvs[3] # ZeroRow(loop.args.nbins)
          /\ f.hdul.ebvs[3] = loop.ebvs[3]
          /\ f.hdul.ebvs[4] = ZeroRow(loop.args.nbins)
          /\ f.hdul.sfacs[Len(loop.hpids)] = FInt(1)

(***************************************************************************)
(* Claims about SpecMerge                                                  *)
(***************************************************************************)
\* The pixel ids of the i-th tile read
PixelsOf(i) ==
    {mrg.lPaths[i].hdul.hpids[k] : k \in 1..Len(mrg.lPaths[i].hdul.hpids)}

\* The tiles read are disjoint and together cover every pixel id of the map
DisjointCover ==
    /\ \A i, j \in 1..Len(mrg.lPaths) : i # j => PixelsOf(i) \cap PixelsOf(j) = {}
    /\ UNION {PixelsOf(i) : i \in 1..Len(mrg.lPaths)} = 0..(mrg.npix - 1)

\* The merged map as it is on disk after the call
MergedMap == (CHOOSE f \in mrg.files : f.path = mrg.pathJoined).hdul

\* The tile that holds pixel h, and the row of h in a tile
TileOf(h) == mrg.lPaths[CHOOSE i \in 1..Len(mrg.lPaths) : h \in PixelsOf(i)].hdul
RowIn(hdul, h) == CHOOSE k \in 1..Len(hdul.hpids) : hdul.hpids[k] = h

\* A tile without mask data: no mask block, or a zero-sized one
LacksMask(hdul) == hdul.nHdu < 5 \/ Len(hdul.masks) = 0

ValidRow(n) == [j \in 1..n |-> 0]
InvalidRow(n) == [j \in 1..n |-> 1]

JustRead == mrg.lPaths[mrg.iPath - 1].hdul
JustReadLacksMask ==
    mrg.stage = "merging" /\ mrg.iPath > 1 /\ LacksMask(JustRead)

\* C10 (as stated): when an input tile lacks mask data (no mask block, or a
\* zero-sized one), mergeMaps marks the rows of that tile invalid (mask 1).
C10_MasklessRowsMarkedInvalid ==
    JustReadLacksMask =>
        \A k \in 1..Len(JustRead.hpids) :
            mrg.maskMaster[npIndex(JustRead.hpids[k], mrg.npix) + 1] = InvalidRow(mrg.nbins)

\* C10 (amended): when an input tile lacks mask data (no mask block, or a
\* zero-sized one), mergeMaps marks the rows of that tile valid (mask 0,
\* the mask being false for good points).
C10_MasklessRowsMarkedValid ==
    JustReadLacksMask =>
        \A k \in 1..Len(JustRead.hpids) :
            mrg.maskMaster[npIndex(JustRead.hpids[k], mrg.npix) + 1] = ValidRow(mrg.nbins)

\* A tile with no mask block has been slotted in, beside rows no tile covers.
C10_Witness ==
    /\ JustReadLacksMask /\ JustRead.nHdu = 4
    /\ \E h \in 1..mrg.npix : mrg.maskMaster[h] = InvalidRow(mrg.nbins)
    /\ mrg.maskMaster[npIndex(JustRead.hpids[1], mrg.npix) + 1] = ValidRow(mrg.nbins)


\* The pixel ids that the tiles read list
Covered == UNION {PixelsOf(i) : i \in 1..Len(mrg.lPaths)}

\* C11: after mergeMaps has processed its list of tiles, every pixel id in
\* [0, npix) that no tile covers has an all-zero distance row, an all-zero
\* extinction row and a mask row of ones (invalid).
C11_UncoveredRowsZeroAndInvalid ==
    mrg.stage = "done" =>
        \A h \in (0..(mrg.npix - 1)) \ Covered :
            /\ MergedMap.dists[h + 1] = ZeroRow(mrg.nbins)
            /\ MergedMap.ebvs[h + 1] = ZeroRow(mrg.nbins)
            /\ MergedMap.masks[h + 1] = InvalidRow(mrg.nbins)


\* Every tile of the list has been slotted into the master arrays
AllRead == mrg.stage = "merging" /\ mrg.iPath > Len(mrg.lPaths)

\* The tiles of the list that hold pixel id h, and the last of them
HoldersOf(h) == {i \in 1..Len(mrg.lPaths) : h \in PixelsOf(i)}
LastHolderOf(h) ==
    mrg.lPaths[CHOOSE i \in HoldersOf(h) : \A j \in HoldersOf(h) : j <= i].hdul

\* C23: when two input tiles hold the same pixel id, the merged row for
\* that id (distances, extinctions, scale factor and mask together) is the
\* row of the tile that is later in the list; it never mixes two tiles.
C23_LaterTileWins ==
    AllRead =>
        \A h \in 0..(mrg.npix - 1) :
            Cardinality(HoldersOf(h)) >= 2 =>
                LET t == LastHolderOf(h)
                    k == RowIn(t, h)
                IN  /\ mrg.distsMaster[h + 1] = t.dists[k]
                    /\ mrg.ebvsMaster[h + 1] = t.ebvs[k]
                    /\ mrg.sfacsMaster[h + 1] = t.sfacs[k]
                    /\ mrg.maskMaster[h + 1] =
                          (IF LacksMask(t) THEN ValidRow(mrg.nbins)
                           ELSE t.masks[k])

\* C13: mergeMaps never writes its merged output to a path that is one of
\* the input tiles it reads: also after the output has been renamed, the
\* path written is not one of the remaining inputs.
C13_OutputIsNoInput ==
    (mrg.stage = "done" /\ mrg.wrote) =>
        \A i \in 1..Len(mrg.lPaths) : mrg.lPaths[i].path # mrg.pathJoined

\* The first tile mergeMaps reads lacks one of the cards it needs
FirstLacksCard ==
    /\ Len(mrg.lPaths) > 0
    /\ ~({"NESTED", "NSIDE", "NBINS"} \subseteq DOMAIN mrg.lPaths[1].hdul.hdr)

\* C14: when no input path matches the pattern, or when the first tile to
\* be read lacks any of NESTED, NSIDE or NBINS, mergeMaps reports and
\* returns: it raises nothing and writes no file (the directory holds the
\* input tiles, unchanged, and nothing else).
C14_AbortsQuietly ==
    (mrg.stage # "called" /\ (mrg.inputs = {} \/ FirstLacksCard)) =>
        /\ mrg.stage = "returned" /\ mrg.raised = "none" /\ ~mrg.wrote
        /\ Len(mrg.log) > 0
        /\ mrg.log[Len(mrg.log)] \in {"WARN - no paths match string",
                                      "WARN - problem reading header keywords"}
        /\ mrg.files \subseteq Tiles
        /\ {f.path : f \in mrg.files} = mrg.inputs

\* mergeMaps has returned on a first tile that has no NSIDE card, with two
\* paths matched.
C14_Witness ==
    /\ mrg.stage = "returned" /\ FirstLacksCard
    /\ "NSIDE" \notin DOMAIN mrg.lPaths[1].hdul.hdr
    /\ Cardinality(mrg.inputs) = 2

(***************************************************************************)
(* Claims about SpecMap                                                    *)
(***************************************************************************)
\* loadMap has been called after writeExtmap wrote the tile to the path
ReadBack == ebv3d.stage \in {"loaded", "queried"} /\ ebv3d.wrote

\* C12: for every tile, writing it with writeExtmap and reading the file
\* back with ebv3d.loadMap reproduces the pixel ids, the distances, the
\* extinctions and the scale factors exactly (and loadMap does not raise
\* when the tile carries its metadata).
C12_RoundTrip ==
    ReadBack =>
        /\ ebv3d.obj.hpids.data = ebv3d.tile.hpids
        /\ ebv3d.obj.dists.data = ebv3d.tile.dists
        /\ ebv3d.obj.ebvs.data = ebv3d.tile.ebvs
        /\ ebv3d.obj.sfacs.data = ebv3d.tile.sfacs
        /\ ebv3d.obj.dists.shape = <<Len(ebv3d.tile.hpids), NBins>>
        /\ ("nside" \in DOMAIN ebv3d.tile.dMeta => ebv3d.loadRaised = "none")

\* A tile of the whole map with its metadata has been written and read back.
C12_Witness ==
    /\ ReadBack /\ ebv3d.loadRaised = "none"
    /\ Len(ebv3d.tile.hpids) = 12
    /\ ebv3d.obj.ebvs.data = ebv3d.tile.ebvs
    /\ ebv3d.obj.dists.data # ebv3d.tile.ebvs


\* loadMap has been called on a path that holds no readable file
LoadedNothing ==
    /\ ebv3d.stage \in {"loaded", "queried"}
    /\ \A f \in ebv3d.files : f.path # ebv3d.obj.pathMap

\* C15: when loadMap is called with an unreadable path it returns without
\* raising and leaves the object in its unloaded state, and every query on
\* that object (getMapNearestDist, getEBVatSightline, getDeltaMag,
\* getDistanceAtMag) returns a value instead of raising.
C15_UnloadedQueriesDoNotFault ==
    LoadedNothing =>
        /\ ebv3d.loadRaised = "none"
        /\ ebv3d.obj = ebv3dInit(MapPath, TRUE)
        /\ (ebv3d.stage = "queried" => ebv3d.out.raised = "none")

\* Separation of a sample from the centre direction, squared, with the
\* difference of longitudes taken the short way round the circle
SeparationSq(smp) ==
    LET d  == Abs(smp.vL - hyb.cen.lCen) % FullCircle
        dl == IF d > HalfCircle THEN FullCircle - d ELSE d
        db == smp.vB - hyb.cen.bCen
    IN  dl * dl + db * db

\* C20: every sample closer to the centre direction than collisionArcmin
\* is rejected, for every centre longitude and either way of giving the
\* centre; a sample at zero offset is never kept.
C20_CloseSamplesRejected ==
    hyb.stage = "sampled" =>
       \A smp \in hyb.samples :
          /\ SeparationSq(smp) >= CollisionArcmin * CollisionArcmin
          /\ ~(smp.dL = 0 /\ smp.dB = 0)

\* What the external model returned for this sight line
OracleReturned == objBovy(los.objBovy, los.distsPc)

\* C19: after getBovyEBV every element of the model-B array is >= 0: each
\* negative value of the external model is replaced by 0 and every
\* non-negative value is left unchanged.
C19_NegativesClamped ==
    los.stage = "evaluated" =>
       /\ Len(los.ebvBovy) = Len(los.distsPc)
       /\ \A i \in 1..Len(los.ebvBovy) :
             /\ FLe(FInt(0), los.ebvBovy[i])
             /\ FLt(OracleReturned[i], FInt(0)) => los.ebvBovy[i] = FInt(0)
             /\ FLe(FInt(0), OracleReturned[i]) => los.ebvBovy[i] = OracleReturned[i]

C19_Witness ==
    /\ los.stage = "evaluated"
    /\ \E i, j \in 1..Len(los.ebvBovy) :
          /\ FLt(OracleReturned[i], FInt(0)) /\ los.ebvBovy[i] = FInt(0)
          /\ FLt(FInt(0), OracleReturned[j]) /\ los.ebvBovy[j] = OracleReturned[j]

\* getMapNearestDist has been called on an object that holds a map
NearestQueried ==
    /\ ebv3d.stage = "queried" /\ ebv3d.query = "getMapNearestDist"
    /\ ndim(ebv3d.obj.dists) = 2

\* |distance - requested| at bin j of row k, in units of 1/den
Miss(k, j) ==
    LET d == ebv3d.obj.dists.data[k][j]
    IN  Abs(d[1] - ebv3d.args[1] * d[2])

\* Bin j of row k is the first bin nearest to the requested distance
FirstNearest(k, j) ==
    /\ \A i \in 1..ebv3d.obj.dists.shape[2] : Miss(k, j) <= Miss(k, i)
    /\ \A i \in 1..(j - 1) : Miss(k, j) < Miss(k, i)

\* C24: for every pixel row of a loaded map and every requested distance,
\* getMapNearestDist returns the distance of the first bin that minimises
\* |distance - requested| in the row, with the extinction stored at the
\* same bin of the same row.
C24_NearestBinPerRow ==
    NearestQueried =>
       /\ ebv3d.out.raised = "none"
       /\ Len(ebv3d.out.ret.distsClosest) = ebv3d.obj.dists.shape[1]
       /\ Len(ebv3d.out.ret.ebvsClosest) = ebv3d.obj.dists.shape[1]
       /\ \A k \in 1..ebv3d.obj.dists.shape[1] :
             \E j \in 1..ebv3d.obj.dists.shape[2] :
                /\ FirstNearest(k, j)
                /\ ebv3d.out.ret.distsClosest[k] = ebv3d.obj.dists.data[k][j]
                /\ ebv3d.out.ret.ebvsClosest[k] = ebv3d.obj.ebvs.data[k][j]

\* A row in which two bins are equally near has been answered, with other
\* rows of the same map that hold other values.
C24_Witness ==
    /\ NearestQueried /\ ebv3d.out.raised = "none"
    /\ ebv3d.obj.dists.shape[1] > 2
    /\ \E k \in 1..ebv3d.obj.dists.shape[1] :
          /\ Miss(k, 1) = Miss(k, 2) /\ ebv3d.obj.dists.data[k][1] # ebv3d.obj.dists.data[k][2]
          /\ ebv3d.out.ret.distsClosest[k] = ebv3d.obj.dists.data[k][1]
          /\ ebv3d.out.ret.ebvsClosest[k] = ebv3d.obj.ebvs.data[k][1]
    /\ \E k, m \in 1..ebv3d.obj.dists.shape[1] :
          ebv3d.out.ret.ebvsClosest[k] # ebv3d.out.ret.ebvsClosest[m]

(***************************************************************************)
(* Claims about SpecRay                                                    *)
(***************************************************************************)
Integrated == ray.stage = "integrated" /\ ray.out.raised = "none"

\* The point of the sight line at grid index i lies outside the cube's
\* coordinate range on at least one axis
OutsideRange(i) ==
    \E a \in 1..3 :
       LET x == ray.dir.c[a] * ray.out.d_interp[i]
       IN  \/ x < Axis0(cube, a)[1] * ray.dir.den
           \/ x > AxisLast(cube, a) * ray.dir.den

\* C16: every query point strictly outside the cube's coordinate range on
\* at least one axis gets exactly 0 from the grid interpolator, so it adds
\* nothing to the line-of-sight sum.
C16_OutsideIsZero ==
    Integrated =>
       \A i \in 1..Len(ray.out.d_interp) :
          OutsideRange(i) =>
             /\ ray.out.ebv_interp[i] = FInt(0)
             /\ i > 1 => ray.out.ebv[i] = ray.out.ebv[i - 1]

C16_Witness ==
    /\ Integrated
    /\ \E i, j \in 1..Len(ray.out.d_interp) :
          /\ OutsideRange(i) /\ ray.out.ebv_interp[i] = FInt(0)
          /\ ~OutsideRange(j) /\ ray.out.ebv_interp[j] # FInt(0)
          /\ j < i /\ ray.out.ebv[i] = ray.out.ebv[i - 1]

NonNegativeDensities ==
    \A i \in 1..Len(ray.out.ebv_interp) : FLe(FInt(0), ray.out.ebv_interp[i])

CumulativeNonDecreasing ==
    \A i \in 1..(Len(ray.out.ebv) - 1) : FLe(ray.out.ebv[i], ray.out.ebv[i + 1])

GridNonDecreasing ==
    \A i \in 1..(Len(ray.out.d_interp) - 1) :
       ray.out.d_interp[i] <= ray.out.d_interp[i + 1]

\* C17 (as stated): for every distance grid, non-negative interpolated
\* densities give a non-decreasing cumulative extinction array.
C17_AnyGrid ==
    (Integrated /\ NonNegativeDensities) => CumulativeNonDecreasing

\* C17 (amended): the same for every grid whose distances do not decrease.
C17_NonDecreasingGrid ==
    (Integrated /\ NonNegativeDensities /\ GridNonDecreasing)
       => CumulativeNonDecreasing

C17_Witness ==
    /\ Integrated /\ NonNegativeDensities /\ GridNonDecreasing
    /\ Len(ray.distances) > 0
    /\ CumulativeNonDecreasing
    /\ \E i \in 1..(Len(ray.out.ebv) - 1) :
          /\ FLt(ray.out.ebv[i], ray.out.ebv[i + 1])
          /\ FLt(ray.out.ebv_interp[i + 1], ray.out.ebv_interp[i])

\* C26: the step width of bin i >= 1 is distance[i] - distance[i-1], that
\* of bin 0 equals the step width of bin 1, and the first cumulative value
\* is density[0] * (distance[1] - distance[0]), for every distance grid
\* with at least two elements.
C26_FirstStepIsSecond ==
    (Integrated /\ Len(ray.out.d_interp) >= 2) =>
       /\ \A i \in 2..Len(ray.out.d_interp) :
             ray.out.d_step[i] = ray.out.d_interp[i] - ray.out.d_interp[i - 1]
       /\ ray.out.d_step[1] = ray.out.d_step[2]
       /\ ray.out.ebv[1] =
             FMul(ray.out.ebv_interp[1],
                  FInt(ray.out.d_interp[2] - ray.out.d_interp[1]))

\* A supplied grid with unequal steps has been integrated from a first
\* point of non-zero density.
C26_Witness ==
    /\ Integrated /\ Len(ray.distances) >= 3
    /\ ray.out.d_step[2] # ray.out.d_step[3]
    /\ ray.out.ebv_interp[1] # FInt(0)
    /\ ray.out.ebv[1] # FInt(0)
    /\ ray.out.d_step[1] = ray.out.d_interp[2] - ray.out.d_interp[1]

\* The supplied distances whose point lies strictly between the cube's
\* lower and upper bound on all three axes
StrictlyInside ==
    {ray.distances[i] : i \in
        {k \in 1..Len(ray.distances) :
            \A a \in 1..3 :
               LET x == ray.dir.c[a] * ray.distances[k]
               IN  /\ x > Axis0(cube, a)[1] * ray.dir.den
                   /\ x < AxisLast(cube, a) * ray.dir.den}}

\* C18: find_max_distance returns the largest supplied distance strictly
\* within the cube's actual bounds on all axes for every sun offset, 0 for
\* an empty array, and does not fault when no distance is in bounds.
C18_LargestInsideNoFault ==
    ray.stage = "found" =>
       /\ ray.found.raised = "none"
       /\ StrictlyInside # {} =>
             /\ ray.found.distMax \in StrictlyInside
             /\ \A d \in StrictlyInside : d <= ray.found.distMax
       /\ Len(ray.distances) = 0 => ray.found.distMax = 0

====
